---- MODULE Spec2Model ----
(***************************************************************************)
(* State-machine model of the tiered-cache / credential / gateway layer of *)
(* fantasy-viz (server package).  Time is the value Date.now() returns, in *)
(* milliseconds; synchronous code takes no time, awaits let time pass.     *)
(***************************************************************************)
EXTENDS Integers, Sequences, FiniteSets, TLC

(***************************************************************************)
(* Bounds of the model.                                                    *)
(***************************************************************************)
MaxWeek == 2
MaxDays == 1
MaxRequests == 3
NCallers == 1
NLeagues == 1
NRulesCallers == 2
NUsers == 2
NTokenCallers == 2
MaxTokens == 3
MaxHours == 1
NInstances == 2
NGatewayCallers == 2
MaxSent == 3
MaxDelays == 2
StartTime == 1000
MaxSeconds == 2
MaxRetryCalls == 2
MaxLeagueCalls == 1
MaxSeasonCalls == 2
MaxRules == 2
MaxStats == 2
MaxModifiers == 3
MaxLeagueElements == 3
MaxTeams == 3
MaxResponses == 4

(***************************************************************************)
(* Program constants.                                                      *)
(***************************************************************************)
CURRENT_SEASON == 2025
CURRENT_WEEK_TTL == 3600000
OTHER_WEEK_TTL == 86400000
RETRIES == 2
RETRY_DELAY == 1000
CACHE_DURATION_MS == 86400000
fiveMinutes == 300000
EXPIRES_IN == 3600
minDelayMs == 50
LEAGUE_CURRENT_WEEK == 8

VARIABLES
  now,        \* Date.now()
  requests,   \* upstream requests sent so far (each response is numbered by its request)
  svc,        \* the service whose calls the behaviour follows
  weekFile,   \* SleeperService: cache/sleeper_<type>_<season>_week_<week>.json
  weekCall,   \* SleeperService: each caller's getWeekStats / getWeekProjections call
  rulesMem,   \* FantasyPointsCalculator.cache (static Map, lost on restart)
  rulesFile,  \* FantasyPointsCalculator: cache/league_<key>_scoring.json
  rulesCall,  \* FantasyPointsCalculator: each caller's getScoringRules call
  tokens,     \* TokenStore.tokens (Map userId -> StoredToken)
  tokenFile,  \* TokenStore: cache/tokens.json
  tokenWrite, \* TokenStore: how the last writeFileSync of tokens.json ended
  tokCall,    \* TokenStore: each caller's getAccessToken call
  issued,     \* token responses the identity provider has issued so far
  lastRequestTime, \* FantasyService.lastRequestTime of each instance
  gwCall,     \* FantasyService: each caller's call in progress
  sent,       \* requests started to the primary provider, in order
  retryCall,  \* retryRequest: the call in progress and what it did
  leagueCall, \* FantasyService.getLeague: the call in progress and what it did
  seasonCall, \* SleeperService.getPlayerSeasonStats: the call in progress
  args,       \* a function without state: the call and its arguments
  returned    \* a function without state: what the call returned

sleeperVars == <<weekFile, weekCall>>
rulesVars == <<rulesMem, rulesFile, rulesCall>>
tokenVars == <<tokens, tokenFile, tokenWrite, tokCall, issued>>
gatewayVars == <<lastRequestTime, gwCall, sent>>
retryVars == <<retryCall>>
leagueVars == <<leagueCall>>
seasonVars == <<seasonCall>>
pureVars == <<args, returned>>
extVars == <<retryVars, leagueVars, seasonVars, pureVars>>
notCache == <<tokenVars, gatewayVars, extVars>>
notRetry == <<sleeperVars, rulesVars, tokenVars, gatewayVars, leagueVars,
              seasonVars, pureVars>>
notLeague == <<sleeperVars, rulesVars, tokenVars, retryVars, seasonVars,
               pureVars>>
notSeason == <<sleeperVars, rulesVars, tokenVars, gatewayVars, retryVars,
               leagueVars, pureVars>>
notPure == <<sleeperVars, rulesVars, tokenVars, gatewayVars, retryVars,
             leagueVars, seasonVars>>
vars == <<now, requests, svc, sleeperVars, rulesVars, tokenVars, gatewayVars,
          extVars>>

Weeks == 1..MaxWeek
CurrentWeeks == 1..MaxWeek
Types == {"stats", "projections"}
Callers == 1..NCallers
WeekKeys == Types \X {CURRENT_SEASON} \X Weeks

(* The instants at which the clock is observed: around every multiple of   *)
(* the two TTLs, one millisecond before it and exactly on it.              *)
Instants ==
  { t \in { d * OTHER_WEEK_TTL + h * CURRENT_WEEK_TTL - e :
              d \in 0..MaxDays, h \in 0..1, e \in 0..1 } : t >= 0 }

(***************************************************************************)
(* SleeperService: the durable week cache (one JSON file per key).         *)
(***************************************************************************)
Null == [kind |-> "null"]
EmptyStats == [kind |-> "empty"]
Data(n) == [kind |-> "data", ver |-> n]

NoFile == [st |-> "absent"]
CorruptFile == [st |-> "corrupt"]
CacheFile(d, t) == [st |-> "ok", data |-> d, timestamp |-> t]

(* Mutation of weekTtl: one TTL for every week that is not past. *)
weekTtlUniform(week, currentWeek) == OTHER_WEEK_TTL

(* const ttl = week === currentWeek ? 60 * 60 * 1000 : 24 * 60 * 60 * 1000 *)
weekTtl(week, currentWeek) ==
  IF week = currentWeek THEN CURRENT_WEEK_TTL ELSE OTHER_WEEK_TTL

(* A value is falsy in `if (cached)` exactly when it is null. *)
Truthy(v) == v # Null

(* Mutation of getCachedWeekData: a file that cannot be read or parsed is   *)
(* taken for a cached empty map.                                           *)
getCachedWeekDataUnguarded(files, type, week, season, currentWeek, t) ==
  LET f == files[<<type, season, week>>] IN
  IF f.st = "absent" THEN Null
  ELSE IF f.st = "corrupt" THEN EmptyStats
  ELSE IF week < currentWeek THEN f.data
  ELSE IF t - f.timestamp < weekTtl(week, currentWeek) THEN f.data
  ELSE Null

(* Mutation of getCachedWeekData: the age test is <= instead of <. *)
getCachedWeekDataInclusive(files, type, week, season, currentWeek, t) ==
  LET f == files[<<type, season, week>>] IN
  IF f.st = "absent" THEN Null
  ELSE IF f.st = "corrupt" THEN Null
  ELSE IF week < currentWeek THEN f.data
  ELSE IF t - f.timestamp <= weekTtl(week, currentWeek) THEN f.data
  ELSE Null

getCachedWeekData(files, type, week, season, currentWeek, t) ==
  LET f == files[<<type, season, week>>] IN
  IF f.st = "absent" THEN Null
  ELSE IF f.st = "corrupt" THEN Null
  ELSE IF week < currentWeek THEN f.data
  ELSE IF t - f.timestamp < weekTtl(week, currentWeek) THEN f.data
  ELSE Null

(* writeFileSync either completes, or throws leaving the old file, or      *)
(* throws after truncating it; the exception is caught and logged.         *)
WriteOutcomes == {"ok", "fail", "partial"}

setCachedWeekData(files, type, week, season, data, t, wr) ==
  LET k == <<type, season, week>> IN
  CASE wr = "ok" -> [files EXCEPT ![k] = CacheFile(data, t)]
    [] wr = "partial" -> [files EXCEPT ![k] = CorruptFile]
    [] OTHER -> files

Idle == [pc |-> "idle"]

(* Mutation of weekFetchFailed: the catch block evicts the key's file. *)
weekFetchFailedEvict(files, type, week, season) ==
  [files EXCEPT ![<<type, season, week>>] = NoFile]

(* The catch block of getWeekStats / getWeekProjections: it logs and       *)
(* returns {}; the cache file is not written.                              *)
weekFetchFailed(files, type, week, season) == files

(* The call has returned `result` to its caller; the record keeps what the  *)
(* call saw (pre: the file at the cache check, at: the time of the check)   *)
(* and did (upstream: requests sent, failed: the catch block ran, kept: the *)
(* step that returned left the key's file as it was).                       *)
WeekReturn(call, result, failed, kept) ==
  [call EXCEPT !.pc = "done", !.result = result, !.failed = failed,
               !.kept = kept, !.wake = 0, !.req = 0]

(* getWeekStats / getWeekProjections up to the first await: the cache      *)
(* check, then either the return of the cached value or the first request. *)
WeekCallStart(c, type, week, season, currentWeek) ==
  /\ svc = "sleeper"
  /\ weekCall[c].pc \in {"idle", "done"}
  /\ LET cached == getCachedWeekData(weekFile, type, week, season, currentWeek, now)
         call == [pc |-> "fetch", type |-> type, week |-> week, season |-> season,
                  currentWeek |-> currentWeek,
                  pre |-> weekFile[<<type, season, week>>], at |-> now,
                  upstream |-> 0, retries |-> RETRIES, delay |-> RETRY_DELAY,
                  wake |-> 0, req |-> 0, result |-> Null, failed |-> FALSE,
                  kept |-> TRUE]
     IN IF Truthy(cached)
        THEN /\ weekCall' = [weekCall EXCEPT ![c] = WeekReturn(call, cached, FALSE, TRUE)]
             /\ UNCHANGED requests
        ELSE /\ requests < MaxRequests
             /\ requests' = requests + 1
             /\ weekCall' = [weekCall EXCEPT ![c] =
                  [call EXCEPT !.upstream = 1, !.req = requests + 1]]
  /\ UNCHANGED <<now, svc, weekFile, rulesVars, notCache>>

(* The response arrives: save to cache, return response.data. *)
WeekFetchOk(c, wr) ==
  /\ weekCall[c].pc = "fetch"
  /\ LET call == weekCall[c]
         k == <<call.type, call.season, call.week>>
         data == Data(call.req)
         files == setCachedWeekData(weekFile, call.type, call.week, call.season,
                                    data, now, wr)
     IN /\ weekFile' = files
        /\ weekCall' = [weekCall EXCEPT ![c] =
              WeekReturn(call, data, FALSE, files[k] = weekFile[k])]
  /\ UNCHANGED <<now, svc, requests, rulesVars, notCache>>

(* The request fails with error.code === "ETIMEDOUT": retryRequest sleeps   *)
(* and tries again while retries > 0, else the error reaches the catch      *)
(* block of the caller, which returns {}.                                   *)
WeekFetchTimeout(c) ==
  /\ weekCall[c].pc = "fetch"
  /\ LET call == weekCall[c]
         k == <<call.type, call.season, call.week>>
         files == weekFetchFailed(weekFile, call.type, call.week, call.season)
     IN IF call.retries > 0
        THEN /\ weekCall' = [weekCall EXCEPT ![c] =
                   [call EXCEPT !.pc = "backoff", !.wake = now + call.delay]]
             /\ UNCHANGED weekFile
        ELSE /\ weekFile' = files
             /\ weekCall' = [weekCall EXCEPT ![c] =
                   WeekReturn(call, EmptyStats, TRUE, files[k] = weekFile[k])]
  /\ UNCHANGED <<now, svc, requests, rulesVars, notCache>>

(* The request fails with any other error: no retry, return {}. *)
WeekFetchError(c) ==
  /\ weekCall[c].pc = "fetch"
  /\ LET call == weekCall[c]
         k == <<call.type, call.season, call.week>>
         files == weekFetchFailed(weekFile, call.type, call.week, call.season)
     IN /\ weekFile' = files
        /\ weekCall' = [weekCall EXCEPT ![c] =
              WeekReturn(call, EmptyStats, TRUE, files[k] = weekFile[k])]
  /\ UNCHANGED <<now, svc, requests, rulesVars, notCache>>

(* setTimeout(resolve, delay) fires: retryRequest(fn, retries - 1, delay * 2). *)
WeekRetry(c) ==
  /\ weekCall[c].pc = "backoff"
  /\ now >= weekCall[c].wake
  /\ requests < MaxRequests
  /\ requests' = requests + 1
  /\ weekCall' = [weekCall EXCEPT ![c] =
        [@ EXCEPT !.pc = "fetch", !.retries = @ - 1, !.delay = @ * 2,
                  !.upstream = @ + 1, !.req = requests + 1]]
  /\ UNCHANGED <<now, svc, weekFile, rulesVars, notCache>>

TickCache ==
  /\ \E t \in Instants : t > now /\ now' = t
  /\ UNCHANGED <<requests, svc, sleeperVars, rulesVars, notCache>>

InitSleeper ==
  /\ weekFile = [k \in WeekKeys |-> NoFile]
  /\ weekCall = [c \in Callers |-> Idle]

NextSleeper ==
  \/ \E c \in Callers, type \in Types, week \in Weeks, cw \in CurrentWeeks :
        WeekCallStart(c, type, week, CURRENT_SEASON, cw)
  \/ \E c \in Callers, wr \in WriteOutcomes : WeekFetchOk(c, wr)
  \/ \E c \in Callers : WeekFetchTimeout(c)
  \/ \E c \in Callers : WeekFetchError(c)
  \/ \E c \in Callers : WeekRetry(c)

(***************************************************************************)
(* FantasyPointsCalculator.getScoringRules: in-process tier (static Map)   *)
(* over a durable tier (one JSON file per league).                         *)
(***************************************************************************)
Leagues == 1..NLeagues
RulesCallers == 1..NRulesCallers

(* A rule table as the provider served it: `ver` numbers the response and  *)
(* `born` is the instant it was received.                                  *)
Rules(n, t) == [kind |-> "data", ver |-> n, born |-> t]

NoMem == [st |-> "absent"]
MemEntry(r, t) == [st |-> "ok", scoringRules |-> r, timestamp |-> t]
RulesFileEntry(r, t) == [st |-> "ok", scoringRules |-> r, timestamp |-> t]

(* cached && Date.now() - cached.timestamp < CACHE_DURATION_MS *)
rulesMemFresh(mem, leagueKey, t) ==
  /\ mem[leagueKey].st = "ok"
  /\ t - mem[leagueKey].timestamp < CACHE_DURATION_MS

(* existsSync, JSON.parse (throws on a corrupt file, caught), then         *)
(* Date.now() - fileCache.timestamp < CACHE_DURATION_MS                    *)
rulesFileFresh(files, leagueKey, t) ==
  /\ files[leagueKey].st = "ok"
  /\ t - files[leagueKey].timestamp < CACHE_DURATION_MS

(* Mutation of promoteRules: the promoted entry is stamped Date.now(). *)
promoteRulesRestamped(mem, files, leagueKey) ==
  [mem EXCEPT ![leagueKey] = MemEntry(files[leagueKey].scoringRules, now)]

(* this.cache.set(leagueKey, {scoringRules, timestamp: fileCache.timestamp}) *)
promoteRules(mem, files, leagueKey) ==
  [mem EXCEPT ![leagueKey] =
      MemEntry(files[leagueKey].scoringRules, files[leagueKey].timestamp)]

(* After a successful fetch: this.cache.set(..., timestamp: Date.now()) *)
storeRulesMem(mem, leagueKey, rules, t) ==
  [mem EXCEPT ![leagueKey] = MemEntry(rules, t)]

(* ... and writeFileSync of {scoringRules, timestamp: Date.now(), leagueKey} *)
storeRulesFile(files, leagueKey, rules, t, wr) ==
  CASE wr = "ok" -> [files EXCEPT ![leagueKey] = RulesFileEntry(rules, t)]
    [] wr = "partial" -> [files EXCEPT ![leagueKey] = CorruptFile]
    [] OTHER -> files

(* The outer catch block: it logs and rethrows; neither tier is written. *)
rulesFetchFailedMem(mem, leagueKey) == mem
rulesFetchFailedFile(files, leagueKey) == files

RulesReturn(call, result, failed, kept) ==
  [call EXCEPT !.pc = "done", !.result = result, !.failed = failed,
               !.kept = kept, !.req = 0]

(* getScoringRules up to its await: memory check, file check (with the     *)
(* promotion into memory), else the request to the provider.               *)
RulesCallStart(c, leagueKey) ==
  /\ svc = "rules"
  /\ rulesCall[c].pc \in {"idle", "done"}
  /\ LET call == [pc |-> "fetch", league |-> leagueKey, at |-> now,
                  preMem |-> rulesMem[leagueKey], preFile |-> rulesFile[leagueKey],
                  upstream |-> 0, req |-> 0, result |-> Null, failed |-> FALSE,
                  kept |-> TRUE]
     IN IF rulesMemFresh(rulesMem, leagueKey, now)
        THEN /\ rulesCall' = [rulesCall EXCEPT ![c] =
                   RulesReturn(call, rulesMem[leagueKey].scoringRules, FALSE, TRUE)]
             /\ UNCHANGED <<rulesMem, requests>>
        ELSE IF rulesFileFresh(rulesFile, leagueKey, now)
        THEN /\ rulesMem' = promoteRules(rulesMem, rulesFile, leagueKey)
             /\ rulesCall' = [rulesCall EXCEPT ![c] =
                   RulesReturn(call, rulesFile[leagueKey].scoringRules, FALSE, TRUE)]
             /\ UNCHANGED requests
        ELSE /\ requests < MaxRequests
             /\ requests' = requests + 1
             /\ rulesCall' = [rulesCall EXCEPT ![c] =
                   [call EXCEPT !.upstream = 1, !.req = requests + 1]]
             /\ UNCHANGED rulesMem
  /\ UNCHANGED <<now, svc, rulesFile, sleeperVars, notCache>>

(* The settings response arrives with stat_modifiers: build the table,     *)
(* store it in memory and in the file, return it.                          *)
RulesFetchOk(c, wr) ==
  /\ rulesCall[c].pc = "fetch"
  /\ LET call == rulesCall[c]
         rules == Rules(call.req, now)
     IN /\ rulesMem' = storeRulesMem(rulesMem, call.league, rules, now)
        /\ rulesFile' = storeRulesFile(rulesFile, call.league, rules, now, wr)
        /\ rulesCall' = [rulesCall EXCEPT ![c] =
              RulesReturn(call, rules, FALSE,
                          /\ rulesMem'[call.league] = rulesMem[call.league]
                          /\ rulesFile'[call.league] = rulesFile[call.league])]
  /\ UNCHANGED <<now, svc, requests, sleeperVars, notCache>>

(* The request fails (network error, 401, 5xx), or the response carries no *)
(* stat_modifiers: the error is logged and rethrown to the caller.         *)
RulesFetchError(c) ==
  /\ rulesCall[c].pc = "fetch"
  /\ LET call == rulesCall[c]
         mem == rulesFetchFailedMem(rulesMem, call.league)
         files == rulesFetchFailedFile(rulesFile, call.league)
     IN /\ rulesMem' = mem
        /\ rulesFile' = files
        /\ rulesCall' = [rulesCall EXCEPT ![c] =
              RulesReturn(call, Null, TRUE,
                          /\ mem[call.league] = rulesMem[call.league]
                          /\ files[call.league] = rulesFile[call.league])]
  /\ UNCHANGED <<now, svc, requests, sleeperVars, notCache>>

(* The process restarts: the static Map is empty again, calls in flight    *)
(* are gone, the files stay.                                               *)
RulesRestart ==
  /\ svc = "rules"
  /\ rulesMem' = [l \in Leagues |-> NoMem]
  /\ rulesCall' = [c \in RulesCallers |-> Idle]
  /\ UNCHANGED <<now, svc, requests, rulesFile, sleeperVars, notCache>>

InitRules ==
  /\ rulesMem = [l \in Leagues |-> NoMem]
  /\ rulesFile = [l \in Leagues |-> NoFile]
  /\ rulesCall = [c \in RulesCallers |-> Idle]

NextRules ==
  \/ \E c \in RulesCallers, l \in Leagues : RulesCallStart(c, l)
  \/ \E c \in RulesCallers, wr \in WriteOutcomes : RulesFetchOk(c, wr)
  \/ \E c \in RulesCallers : RulesFetchError(c)
  \/ RulesRestart

(***************************************************************************)
(* FantasyService: the gateway to the primary provider.  Every controller  *)
(* holds a FantasyService of its own (new FantasyService() in a field      *)
(* initialiser), each with its own lastRequestTime.                        *)
(***************************************************************************)
Instances == 1..NInstances
GatewayCallers == 1..NGatewayCallers

(* The instants at which the clock is observed: around every multiple of   *)
(* minDelayMs after the start of the observation.                          *)
GatewayInstants ==
  {t \in {StartTime + k * minDelayMs - e : k \in 0..MaxDelays, e \in 0..1} :
     t >= StartTime}

(* axios.get(yahooUrl, ...) called at instant t for the roster of `week`    *)
(* (NoWeek: the url carries no week parameter).                            *)
NoWeek == [kind |-> "undefined"]
Request(t, week) == [at |-> t, week |-> week]

Pending == [week |-> 0, data |-> [kind |-> "pending"]]

(* rateLimit up to its await: the time to sleep, 0 when it does not sleep. *)
(* const timeSinceLastRequest = now - this.lastRequestTime;                *)
(* if (timeSinceLastRequest < this.minDelayMs) setTimeout(resolve,         *)
(*   this.minDelayMs - timeSinceLastRequest)                               *)
rateLimitDelay(last, t) ==
  IF t - last < minDelayMs THEN minDelayMs - (t - last) ELSE 0

(* getTeamRoster up to its first await that lets time pass: rateLimit,     *)
(* which either sleeps or stamps lastRequestTime at once, and in that case *)
(* the request.                                                            *)
GetTeamRosterStart(c, i) ==
  /\ svc = "gateway"
  /\ gwCall[c].pc \in {"idle", "done"}
  /\ Len(sent) < MaxSent
  /\ LET delay == rateLimitDelay(lastRequestTime[i], now)
     IN IF delay > 0
        THEN /\ gwCall' = [gwCall EXCEPT ![c] =
                  [pc |-> "sleeping", op |-> "getTeamRoster", instance |-> i,
                   wake |-> now + delay]]
             /\ UNCHANGED <<lastRequestTime, sent>>
        ELSE /\ lastRequestTime' = [lastRequestTime EXCEPT ![i] = now]
             /\ sent' = Append(sent, Request(now, NoWeek))
             /\ gwCall' = [gwCall EXCEPT ![c] =
                  [pc |-> "waiting", op |-> "getTeamRoster"]]
  /\ UNCHANGED <<now, requests, svc, sleeperVars, rulesVars, tokenVars, extVars>>

(* The timer of rateLimit fires: this.lastRequestTime = Date.now(), then   *)
(* the request.                                                            *)
RateLimitWake(c) ==
  /\ gwCall[c].pc = "sleeping"
  /\ now >= gwCall[c].wake
  /\ lastRequestTime' = [lastRequestTime EXCEPT ![gwCall[c].instance] = now]
  /\ sent' = Append(sent, Request(now, NoWeek))
  /\ gwCall' = [gwCall EXCEPT ![c] =
       [pc |-> "waiting", op |-> "getTeamRoster"]]
  /\ UNCHANGED <<now, requests, svc, sleeperVars, rulesVars, tokenVars, extVars>>

(* The roster response arrives (return resp.data) or the request fails     *)
(* (the catch block throws an Error naming the cause).                     *)
GetTeamRosterResponse(c, ok) ==
  /\ gwCall[c].pc = "waiting"
  /\ gwCall' = [gwCall EXCEPT ![c] =
       [pc |-> "done", op |-> "getTeamRoster", threw |-> ~ok,
        result |-> IF ok THEN Data(0) ELSE Null]]
  /\ UNCHANGED <<now, requests, svc, lastRequestTime, sent,
                 sleeperVars, rulesVars, tokenVars, extVars>>

(* The requests of the loop `for (week = startWeek; week <= endWeek;       *)
(* week++)` of getPlayerStats, in the order they are started.              *)
RECURSIVE weeklyRequests(_, _, _)
weeklyRequests(t, week, endWeek) ==
  IF week > endWeek THEN <<>>
  ELSE <<Request(t, week)>> \o weeklyRequests(t, week + 1, endWeek)

(* getPlayerStats up to `await Promise.all(weeklyPromises)`: the loop      *)
(* calls axios.get for every week of the range; it does not call           *)
(* rateLimit and does not touch lastRequestTime.                           *)
GetPlayerStatsStart(c, i, startWeek, endWeek) ==
  /\ svc = "gateway"
  /\ gwCall[c].pc \in {"idle", "done"}
  /\ LET reqs == weeklyRequests(now, startWeek, endWeek)
     IN /\ Len(sent) + Len(reqs) <= MaxSent
        /\ sent' = sent \o reqs
        /\ gwCall' = [gwCall EXCEPT ![c] =
             [pc |-> "weeks", op |-> "getPlayerStats",
              startWeek |-> startWeek, endWeek |-> endWeek, base |-> Len(sent),
              responses |-> [k \in 1..Len(reqs) |-> Pending]]]
  /\ UNCHANGED <<now, requests, svc, lastRequestTime,
                 sleeperVars, rulesVars, tokenVars, extVars>>

(* One week's promise settles: .then((resp) => ({week, data: resp.data}))  *)
(* or .catch((err) => ({week, data: null})).                               *)
PlayerStatsWeekSettled(c, k, ok) ==
  /\ gwCall[c].pc = "weeks"
  /\ k \in DOMAIN gwCall[c].responses
  /\ gwCall[c].responses[k] = Pending
  /\ LET week == gwCall[c].startWeek + k - 1
     IN gwCall' = [gwCall EXCEPT ![c].responses[k] =
          [week |-> week, data |-> IF ok THEN Data(week) ELSE Null]]
  /\ UNCHANGED <<now, requests, svc, lastRequestTime, sent,
                 sleeperVars, rulesVars, tokenVars, extVars>>

(* Mutation of validResponses: the failed weeks are not filtered out. *)
validResponsesUnfiltered(weeklyResponses) == weeklyResponses

(* weeklyResponses.filter((r) => r.data !== null) *)
validResponses(weeklyResponses) ==
  SelectSeq(weeklyResponses, LAMBDA r : r.data # Null)

(* normalizePlayerStats, as far as the weeks go: the weeks whose roster    *)
(* the players' weeklyData can come from.  It catches its own errors.      *)
normalizedWeeks(weeklyRosterResponses) ==
  {weeklyRosterResponses[k].week : k \in DOMAIN weeklyRosterResponses}

(* convertPlayerStatsResponse(teamKey, startWeek, endWeek, weeksRetrieved, *)
(* playerStats)                                                            *)
convertPlayerStatsResponse(startWeek, endWeek, weeksRetrieved, playerStats) ==
  [kind |-> "PlayerStatsResponse",
   weekRange |-> [start |-> startWeek, end |-> endWeek],
   weeksRetrieved |-> weeksRetrieved,
   players |-> playerStats]

(* Promise.all has resolved: filter, throw "Failed to fetch any roster     *)
(* data" if nothing is left, else normalise and convert.                   *)
GetPlayerStatsFinish(c) ==
  /\ gwCall[c].pc = "weeks"
  /\ \A k \in DOMAIN gwCall[c].responses : gwCall[c].responses[k] # Pending
  /\ LET call == gwCall[c]
         valid == validResponses(call.responses)
     IN gwCall' = [gwCall EXCEPT ![c] =
          [pc |-> "done", op |-> "getPlayerStats",
           startWeek |-> call.startWeek, endWeek |-> call.endWeek,
           base |-> call.base, responses |-> call.responses,
           threw |-> Len(valid) = 0,
           result |-> IF Len(valid) = 0 THEN Null
                      ELSE convertPlayerStatsResponse(call.startWeek,
                             call.endWeek, Len(valid),
                             normalizedWeeks(valid))]]
  /\ UNCHANGED <<now, requests, svc, lastRequestTime, sent,
                 sleeperVars, rulesVars, tokenVars, extVars>>

TickGateway ==
  /\ svc = "gateway"
  /\ \E t \in GatewayInstants : t > now /\ now' = t
  /\ UNCHANGED <<requests, svc, sleeperVars, rulesVars, tokenVars, extVars, gatewayVars>>

(* private lastRequestTime = 0, no call in progress, nothing sent. *)
InitGateway ==
  /\ lastRequestTime = [i \in Instances |-> 0]
  /\ gwCall = [c \in GatewayCallers |-> Idle]
  /\ sent = <<>>

NextGateway ==
  \/ \E c \in GatewayCallers, i \in Instances : GetTeamRosterStart(c, i)
  \/ \E c \in GatewayCallers : RateLimitWake(c)
  \/ \E c \in GatewayCallers, ok \in BOOLEAN : GetTeamRosterResponse(c, ok)
  \/ \E c \in GatewayCallers, i \in Instances, s \in Weeks, e \in Weeks :
       GetPlayerStatsStart(c, i, s, e)
  \/ \E c \in GatewayCallers, k \in Weeks, ok \in BOOLEAN :
       PlayerStatsWeekSettled(c, k, ok)
  \/ \E c \in GatewayCallers : GetPlayerStatsFinish(c)
  \/ TickGateway

(***************************************************************************)
(* retryRequest(fn, retries = 2, delay = 1000): the retry helper of the    *)
(* SleeperService week endpoints, with any fn.                             *)
(***************************************************************************)
(* error.code of a rejected fn: a connect timeout, the axios timeout of    *)
(* `timeout: 30000`, anything else.                                        *)
ErrorCodes == {"ETIMEDOUT", "ECONNABORTED", "ERR_BAD_RESPONSE"}

(* The instants at which the clock is observed while fn is pending. *)
RetryInstants ==
  {t \in {k * RETRY_DELAY - e : k \in 0..MaxSeconds, e \in 0..1} : t >= 0}

(* Mutation of shouldRetry: any error is retried. *)
shouldRetryAnyError(retries, code) == retries > 0

(* retries > 0 && error.code === "ETIMEDOUT" *)
shouldRetry(retries, code) == retries > 0 /\ code = "ETIMEDOUT"

(* retryRequest is called: `return await fn()` calls fn.  `calls` are the  *)
(* instants fn was called at, `errors` the rejections of fn so far, with   *)
(* the instant of each, and `timers` the delays handed to setTimeout.      *)
RetryRequestStart ==
  /\ svc = "retry"
  /\ retryCall.pc \in {"idle", "done"}
  /\ retryCall.n < MaxRetryCalls
  /\ retryCall' = [pc |-> "fn", n |-> retryCall.n + 1, retries |-> RETRIES,
                   delay |-> RETRY_DELAY, wake |-> 0, calls |-> <<now>>,
                   errors |-> <<>>, timers |-> <<>>, outcome |-> Null]
  /\ UNCHANGED <<now, requests, svc, notRetry>>

(* fn resolves: retryRequest returns its value. *)
RetryFnResolves ==
  /\ retryCall.pc = "fn"
  /\ retryCall' = [retryCall EXCEPT !.pc = "done",
        !.outcome = [kind |-> "value", attempt |-> Len(retryCall.calls)]]
  /\ UNCHANGED <<now, requests, svc, notRetry>>

(* fn rejects: the catch block either sets the timer or rethrows. *)
RetryFnRejects(code) ==
  /\ retryCall.pc = "fn"
  /\ LET err == [kind |-> "error", code |-> code,
                 attempt |-> Len(retryCall.calls), at |-> now]
     IN IF shouldRetry(retryCall.retries, code)
        THEN retryCall' = [retryCall EXCEPT !.pc = "backoff",
                 !.wake = now + retryCall.delay,
                 !.errors = Append(@, err),
                 !.timers = Append(@, retryCall.delay)]
        ELSE retryCall' = [retryCall EXCEPT !.pc = "done",
                 !.errors = Append(@, err), !.outcome = err]
  /\ UNCHANGED <<now, requests, svc, notRetry>>

(* Time passes until the timer fires, at `wake` or later:                  *)
(* return retryRequest(fn, retries - 1, delay * 2), which calls fn.        *)
RetryTimerFires ==
  /\ retryCall.pc = "backoff"
  /\ LET t == IF now >= retryCall.wake THEN now ELSE retryCall.wake
     IN /\ now' = t
        /\ retryCall' = [retryCall EXCEPT !.pc = "fn", !.retries = @ - 1,
              !.delay = @ * 2, !.wake = 0, !.calls = Append(@, t)]
  /\ UNCHANGED <<requests, svc, notRetry>>

(* Time passes while fn is pending or the timer is running. *)
TickRetry ==
  /\ svc = "retry"
  /\ retryCall.pc \in {"fn", "backoff"}
  /\ \E t \in RetryInstants : t > now /\ now' = t
  /\ UNCHANGED <<requests, svc, retryVars, notRetry>>

InitRetry ==
  retryCall = [pc |-> "idle", n |-> 0]

NextRetry ==
  \/ RetryRequestStart
  \/ RetryFnResolves
  \/ \E code \in ErrorCodes : RetryFnRejects(code)
  \/ RetryTimerFires
  \/ TickRetry

(***************************************************************************)
(* FantasyService.getLeague: the standings request, then one scoreboard    *)
(* request per week 1..currentWeek, each behind rateLimit, on instance 1.  *)
(***************************************************************************)
(* What a request to the provider ends in: a response, the axios timeout,  *)
(* or a response with an error status.                                     *)
UpstreamErrors == {"ECONNABORTED", "404", "401", "500"}
UpstreamOutcomes == {"ok"} \cup UpstreamErrors

(* The outer catch block of getLeague: the Error it throws. *)
leagueError(err) ==
  CASE err = "ECONNABORTED" -> "Request to Yahoo API timed out"
    [] err = "404" -> "League not found. Check your league key."
    [] err = "401" -> "Not authorized. Please reconnect with Yahoo."
    [] OTHER -> "Failed to fetch league"

(* normalizeLeague(standingsResp.data, allScoreboardData) converted by     *)
(* convertLeagueResponse, as far as the weeks go.                          *)
LeagueResponse(standings, allScoreboardData) ==
  [kind |-> "LeagueResponse", standings |-> standings,
   scoreboards |-> allScoreboardData]

(* `await this.rateLimit()` followed by axios.get for `target`: the call   *)
(* sleeps first when the last request is under minDelayMs ago.             *)
leagueRequest(call, target, week, last, t) ==
  IF rateLimitDelay(last, t) > 0
  THEN [call EXCEPT !.pc = "sleeping", !.target = target, !.week = week,
                    !.wake = t + rateLimitDelay(last, t)]
  ELSE [call EXCEPT !.pc = target, !.target = target, !.week = week,
                    !.wake = 0,
                    !.attempted = IF target = "scoreboard"
                                  THEN Append(@, week) ELSE @]

(* lastRequestTime after leagueRequest. *)
leagueStamp(last, t) == IF rateLimitDelay(last, t) > 0 THEN last ELSE t

(* return this.convertLeagueResponse(normalized, leagueKey) *)
leagueReturn(call) ==
  [call EXCEPT !.pc = "done", !.threw = FALSE,
     !.result = LeagueResponse(call.standings, call.allScoreboardData)]

(* getLeague is called. *)
GetLeagueStart ==
  /\ svc = "league"
  /\ leagueCall.pc \in {"idle", "done"}
  /\ leagueCall.n < MaxLeagueCalls
  /\ LET call == [pc |-> "idle", n |-> leagueCall.n + 1, target |-> "standings",
                  week |-> 0, wake |-> 0, standings |-> Null,
                  attempted |-> <<>>, failures |-> <<>>,
                  allScoreboardData |-> <<>>, threw |-> FALSE,
                  message |-> "", result |-> Null]
     IN /\ leagueCall' = leagueRequest(call, "standings", 0, lastRequestTime[1], now)
        /\ lastRequestTime' =
             [lastRequestTime EXCEPT ![1] = leagueStamp(@, now)]
  /\ UNCHANGED <<now, requests, svc, gwCall, sent, notLeague>>

(* Time passes until the timer of rateLimit fires, at `wake` or later:     *)
(* this.lastRequestTime = Date.now(), then the request.                    *)
LeagueRateLimitWake ==
  /\ leagueCall.pc = "sleeping"
  /\ LET t == IF now >= leagueCall.wake THEN now ELSE leagueCall.wake
     IN /\ now' = t
        /\ lastRequestTime' = [lastRequestTime EXCEPT ![1] = t]
        /\ leagueCall' = [leagueCall EXCEPT !.pc = leagueCall.target, !.wake = 0,
              !.attempted = IF leagueCall.target = "scoreboard"
                            THEN Append(@, leagueCall.week) ELSE @]
  /\ UNCHANGED <<requests, svc, gwCall, sent, notLeague>>

(* The standings request ends: on a response the week loop starts with     *)
(* week 1, on an error the outer catch block throws.                       *)
LeagueStandingsSettled(outcome) ==
  /\ leagueCall.pc = "standings"
  /\ IF outcome = "ok"
     THEN /\ leagueCall' = leagueRequest(
                [leagueCall EXCEPT !.standings = Data(0)],
                "scoreboard", 1, lastRequestTime[1], now)
          /\ lastRequestTime' =
               [lastRequestTime EXCEPT ![1] = leagueStamp(@, now)]
     ELSE /\ leagueCall' = [leagueCall EXCEPT !.pc = "done", !.threw = TRUE,
                !.failures = Append(@, [week |-> 0, error |-> outcome]),
                !.message = leagueError(outcome)]
          /\ UNCHANGED lastRequestTime
  /\ UNCHANGED <<now, requests, svc, gwCall, sent, notLeague>>

(* A scoreboard request ends: on a response its data is pushed and the     *)
(* loop goes on to the next week or, after the last week, getLeague        *)
(* returns; on an error the inner catch block ends the loop and getLeague  *)
(* returns with the weeks pushed so far.                                   *)
LeagueScoreboardSettled(outcome) ==
  /\ leagueCall.pc = "scoreboard"
  /\ LET week == leagueCall.week
         pushed == [leagueCall EXCEPT
                      !.allScoreboardData = Append(@, Data(week))]
     IN IF outcome = "ok"
        THEN IF week < LEAGUE_CURRENT_WEEK
             THEN /\ leagueCall' = leagueRequest(pushed, "scoreboard", week + 1,
                                                 lastRequestTime[1], now)
                  /\ lastRequestTime' =
                       [lastRequestTime EXCEPT ![1] = leagueStamp(@, now)]
             ELSE /\ leagueCall' = leagueReturn(pushed)
                  /\ UNCHANGED lastRequestTime
        ELSE /\ leagueCall' = leagueReturn(
                   [leagueCall EXCEPT
                      !.failures = Append(@, [week |-> week, error |-> outcome])])
             /\ UNCHANGED lastRequestTime
  /\ UNCHANGED <<now, requests, svc, gwCall, sent, notLeague>>

(* Time passes while a request is pending or the timer is running. *)
TickLeague ==
  /\ svc = "league"
  /\ leagueCall.pc \in {"sleeping", "standings", "scoreboard"}
  /\ \E t \in GatewayInstants : t > now /\ now' = t
  /\ UNCHANGED <<requests, svc, gatewayVars, leagueVars, notLeague>>

InitLeague ==
  leagueCall = [pc |-> "idle", n |-> 0]

NextLeague ==
  \/ GetLeagueStart
  \/ LeagueRateLimitWake
  \/ \E outcome \in UpstreamOutcomes : LeagueStandingsSettled(outcome)
  \/ \E outcome \in UpstreamOutcomes : LeagueScoreboardSettled(outcome)
  \/ TickLeague

(***************************************************************************)
(* Numbers and Maps.  Points are kept in hundredths of a point, so that a  *)
(* rule such as 0.04 points per yard is the integer 4; a Map is the list   *)
(* of its [key, value] entries in insertion order.                         *)
(***************************************************************************)
Pts(n) == n * 100

mapHas(map, key) == \E i \in DOMAIN map : map[i][1] = key

mapGet(map, key) == map[CHOOSE i \in DOMAIN map : map[i][1] = key][2]

mapSet(map, key, value) ==
  IF mapHas(map, key)
  THEN [i \in DOMAIN map |-> IF map[i][1] = key THEN <<key, value>> ELSE map[i]]
  ELSE Append(map, <<key, value>>)

(***************************************************************************)
(* SleeperService.calculateFantasyPoints                                   *)
(***************************************************************************)
(* yahooToSleeper: the stat fields of the secondary provider by the stat   *)
(* id of the primary provider.                                             *)
yahooToSleeper ==
  (4 :> "pass_yd") @@ (5 :> "pass_td") @@ (6 :> "pass_int") @@
  (8 :> "pass_2pt") @@ (9 :> "rush_yd") @@ (10 :> "rush_td") @@
  (11 :> "rec") @@ (12 :> "rec_yd") @@ (13 :> "rec_td") @@
  (15 :> "rec_2pt") @@ (16 :> "rush_2pt") @@ (18 :> "fum_lost")

(* Mutation of breakdownLine: a zero-valued stat gets a line too. *)
breakdownLineAlways(breakdown, stat, value, points) ==
  Append(breakdown, [stat |-> stat, value |-> value, points |-> points])

(* if (statValue === 0) continue; ... breakdown.push({stat, value, points}) *)
breakdownLine(breakdown, stat, value, points) ==
  IF value = 0 THEN breakdown
  ELSE Append(breakdown, [stat |-> stat, value |-> value, points |-> points])

(* The loop over scoringSettings.scoringRules.entries(), from entry i on,  *)
(* with totalPoints and breakdown as they are before that entry.           *)
RECURSIVE fantasyPointsFrom(_, _, _, _, _)
fantasyPointsFrom(stats, scoringRules, i, totalPoints, breakdown) ==
  IF i > Len(scoringRules)
  THEN [points |-> totalPoints, breakdown |-> breakdown]
  ELSE LET yahooStatId == scoringRules[i][1]
           points == scoringRules[i][2]
       IN IF yahooStatId \in DOMAIN yahooToSleeper
             /\ yahooToSleeper[yahooStatId] \in DOMAIN stats
          THEN LET sleeperStatKey == yahooToSleeper[yahooStatId]
                   statValue == stats[sleeperStatKey]
               IN fantasyPointsFrom(stats, scoringRules, i + 1,
                    totalPoints + statValue * points,
                    breakdownLine(breakdown, sleeperStatKey, statValue,
                                  statValue * points))
          ELSE fantasyPointsFrom(stats, scoringRules, i + 1, totalPoints,
                                 breakdown)

calculateFantasyPoints(stats, scoringRules) ==
  fantasyPointsFrom(stats, scoringRules, 1, 0, <<>>)

(***************************************************************************)
(* SleeperService.getPlayerSeasonStats: per week of the range one          *)
(* getWeekStats and one getWeekProjections call, all started together.     *)
(***************************************************************************)
(* {}: the stat record of a player the week's map does not hold. *)
NoStats == <<>>

(* What a getWeekStats / getWeekProjections call returns for the player:   *)
(* "played": the week's map holds the player's record; "absent": the map   *)
(* was fetched and does not hold the player; "failed": the fetch failed    *)
(* and the call returned {}.  `stats[player.player_id] || {}`.             *)
WeekFetches == {"played", "absent", "failed"}

playerWeekStats(fetch, type) ==
  IF fetch = "played"
  THEN IF type = "stats" THEN [pass_td |-> 2] ELSE [pass_td |-> 1]
  ELSE NoStats

(* The scoring settings of the calls: 4 points per passing touchdown. *)
SeasonRules == <<<<5, Pts(4)>>>>

(* One entry of weeklyData, from the two results of the week. *)
playerWeekData(week, stats, projections, scoringRules) ==
  LET actualResult == calculateFantasyPoints(stats, scoringRules)
      projectedResult == calculateFantasyPoints(projections, scoringRules)
  IN [week |-> week,
      projectedPoints |-> projectedResult.points,
      actualPoints |-> actualResult.points,
      difference |-> actualResult.points - projectedResult.points]

(* getPlayerSeasonStats up to `await Promise.all(weekPromises)`: a player  *)
(* that is not found gives null, else the fetches of all weeks start.      *)
GetPlayerSeasonStatsStart(found, startWeek, endWeek) ==
  /\ svc = "season"
  /\ seasonCall.pc \in {"idle", "done"}
  /\ seasonCall.n < MaxSeasonCalls
  /\ LET weeks == [k \in 1..(endWeek - startWeek + 1) |-> startWeek + k - 1]
         call == [pc |-> "weeks", n |-> seasonCall.n + 1, found |-> found,
                  startWeek |-> startWeek, endWeek |-> endWeek,
                  stats |-> [k \in DOMAIN weeks |-> "pending"],
                  projections |-> [k \in DOMAIN weeks |-> "pending"],
                  threw |-> FALSE, result |-> Null]
     IN seasonCall' = IF found THEN call
                      ELSE [call EXCEPT !.pc = "done", !.stats = <<>>,
                                        !.projections = <<>>]
  /\ UNCHANGED <<now, requests, svc, notSeason>>

(* One getWeekStats / getWeekProjections call of the range returns. *)
SeasonWeekFetched(k, type, fetch) ==
  /\ seasonCall.pc = "weeks"
  /\ k \in DOMAIN seasonCall.stats
  /\ IF type = "stats"
     THEN /\ seasonCall.stats[k] = "pending"
          /\ seasonCall' = [seasonCall EXCEPT !.stats[k] = fetch]
     ELSE /\ seasonCall.projections[k] = "pending"
          /\ seasonCall' = [seasonCall EXCEPT !.projections[k] = fetch]
  /\ UNCHANGED <<now, requests, svc, notSeason>>

(* Promise.all has resolved: one weeklyData entry per week of the range,   *)
(* the summary over the weeks with actualPoints > 0, and the return.       *)
GetPlayerSeasonStatsFinish ==
  /\ seasonCall.pc = "weeks"
  /\ \A k \in DOMAIN seasonCall.stats :
       seasonCall.stats[k] # "pending" /\ seasonCall.projections[k] # "pending"
  /\ LET call == seasonCall
         weeklyData == [k \in DOMAIN call.stats |->
            playerWeekData(call.startWeek + k - 1,
                           playerWeekStats(call.stats[k], "stats"),
                           playerWeekStats(call.projections[k], "projections"),
                           SeasonRules)]
         playedWeeks == SelectSeq(weeklyData, LAMBDA w : w.actualPoints > 0)
     IN seasonCall' = [call EXCEPT !.pc = "done", !.threw = FALSE,
           !.result = [kind |-> "NormalizedPlayerStats",
                       weeklyData |-> weeklyData,
                       weeksPlayed |-> Len(playedWeeks)]]
  /\ UNCHANGED <<now, requests, svc, notSeason>>

InitSeason ==
  seasonCall = [pc |-> "idle", n |-> 0]

NextSeason ==
  \/ \E found \in BOOLEAN, s \in Weeks, e \in Weeks :
       GetPlayerSeasonStatsStart(found, s, e)
  \/ \E k \in Weeks, type \in Types, fetch \in WeekFetches :
       SeasonWeekFetched(k, type, fetch)
  \/ GetPlayerSeasonStatsFinish

(***************************************************************************)
(* Strings and numbers.  A string is the list of its characters; parseInt  *)
(* and parseFloat read an optional sign and the digits that follow, and    *)
(* give NaN when there is no digit (the strings of the model hold no       *)
(* blank, point or exponent).                                              *)
(***************************************************************************)
NaN == [kind |-> "NaN"]
Num(n) == [kind |-> "number", n |-> n]
isNaN(v) == v.kind = "NaN"

DigitChars == <<"0", "1", "2", "3", "4", "5", "6", "7", "8", "9">>
IsDigit(ch) == \E d \in DOMAIN DigitChars : DigitChars[d] = ch
DigitValue(ch) == (CHOOSE d \in DOMAIN DigitChars : DigitChars[d] = ch) - 1

(* The value of the digits of str from position i on, up to the first      *)
(* character that is no digit, after the digits that gave acc.             *)
RECURSIVE digitsValue(_, _, _)
digitsValue(str, i, acc) ==
  IF i > Len(str) \/ ~IsDigit(str[i]) THEN acc
  ELSE digitsValue(str, i + 1, acc * 10 + DigitValue(str[i]))

parseInt(str) ==
  LET neg == Len(str) >= 1 /\ str[1] = "-"
      start == IF neg THEN 2 ELSE 1
  IN IF start > Len(str) \/ ~IsDigit(str[start]) THEN NaN
     ELSE Num((IF neg THEN -1 ELSE 1) * digitsValue(str, start, 0))

parseFloat(str) ==
  LET neg == Len(str) >= 1 /\ str[1] = "-"
      start == IF neg THEN 2 ELSE 1
  IN IF start > Len(str) \/ ~IsDigit(str[start]) THEN NaN
     ELSE Num((IF neg THEN -1 ELSE 1) * digitsValue(str, start, 0))

(* The decimal digits of n >= 0, and String(n). *)
RECURSIVE toDigits(_)
toDigits(n) ==
  IF n < 10 THEN <<DigitChars[n + 1]>>
  ELSE toDigits(n \div 10) \o <<DigitChars[(n % 10) + 1]>>

numberToString(n) == IF n < 0 THEN <<"-">> \o toDigits(-n) ELSE toDigits(n)

(***************************************************************************)
(* FantasyPointsCalculator.calculatePoints / calculatePointsForWeeks with  *)
(* the rule table getScoringRules returned.                                *)
(***************************************************************************)
(* stat_id as the provider gives it: a number or a string. *)
NumberId(n) == [type |-> "number", n |-> n]
StringId(str) == [type |-> "string", s |-> str]

PlayerStat(stat_id, value) == [stat |-> [stat_id |-> stat_id, value |-> value]]

(* typeof stat_id === "string" ? parseInt(stat_id, 10) : stat_id *)
statIdOf(statObj) ==
  IF statObj.stat.stat_id.type = "string"
  THEN parseInt(statObj.stat.stat_id.s)
  ELSE Num(statObj.stat.stat_id.n)

(* Mutation of pointsPerUnit: the table is looked up with stat_id as it    *)
(* came, so that a string never matches a numeric key.                     *)
pointsPerUnitUnconverted(scoringRules, statObj) ==
  IF statObj.stat.stat_id.type = "number"
     /\ mapHas(scoringRules, statObj.stat.stat_id.n)
  THEN mapGet(scoringRules, statObj.stat.stat_id.n)
  ELSE 0

(* scoringRules.get(statId) || 0 *)
pointsPerUnit(scoringRules, statObj) ==
  IF mapHas(scoringRules, statIdOf(statObj).n)
  THEN mapGet(scoringRules, statIdOf(statObj).n)
  ELSE 0

(* The loop `for (const statObj of playerStats)` from entry i on. *)
RECURSIVE statPointsFrom(_, _, _, _)
statPointsFrom(scoringRules, playerStats, i, totalPoints) ==
  IF i > Len(playerStats) THEN totalPoints
  ELSE LET statObj == playerStats[i]
           statValue == parseFloat(statObj.stat.value)
       IN IF isNaN(statValue) \/ isNaN(statIdOf(statObj))
          THEN statPointsFrom(scoringRules, playerStats, i + 1, totalPoints)
          ELSE statPointsFrom(scoringRules, playerStats, i + 1,
                 totalPoints + statValue.n * pointsPerUnit(scoringRules, statObj))

calculatePoints(scoringRules, playerStats) ==
  statPointsFrom(scoringRules, playerStats, 1, 0)

calculatePointsForWeeks(scoringRules, weeklyStats) ==
  [k \in DOMAIN weeklyStats |->
     [week |-> weeklyStats[k].week,
      points |-> statPointsFrom(scoringRules, weeklyStats[k].stats, 1, 0)]]

(***************************************************************************)
(* The inputs of the calculator functions.                                 *)
(***************************************************************************)
(* The lists over S of length up to n. *)
SeqsUpTo(S, n) == UNION {[1..k -> S] : k \in 0..n}

(* Stat ids: passing touchdowns, receiving two-point conversions, and an   *)
(* id no rule table holds.                                                 *)
CalcStatIds == {5, 15, 99}
CalcRuleIds == {5, 15}
CalcRulePoints == {0, 4, Pts(4), -Pts(2)}
CalcStatValues == {0, 3}

(* Rule tables: Maps with distinct keys. *)
CalcRuleTables ==
  {t \in SeqsUpTo(CalcRuleIds \X CalcRulePoints, MaxRules) :
     \A i, j \in DOMAIN t : i # j => t[i][1] # t[j][1]}

CalcPlayerStats ==
  {PlayerStat(id, value) :
     id \in {NumberId(n) : n \in CalcStatIds}
            \cup {StringId(numberToString(n)) : n \in CalcStatIds}
            \cup {StringId(<<"x">>)},
     value \in {numberToString(v) : v \in CalcStatValues} \cup {<<>>}}

CalcWeeklyStats ==
  {[week |-> w, stats |-> l] : w \in Weeks, l \in SeqsUpTo(CalcPlayerStats, 1)}

Returned(value) == [kind |-> "returned", value |-> value]

CalculatePoints ==
  /\ svc = "calculatePoints"
  /\ returned = Null
  /\ returned' = Returned(calculatePoints(args.scoringRules, args.playerStats))
  /\ UNCHANGED <<now, requests, svc, args, notPure>>

CalculatePointsForWeeks ==
  /\ svc = "calculatePointsForWeeks"
  /\ returned = Null
  /\ returned' = Returned(calculatePointsForWeeks(args.scoringRules,
                                                  args.weeklyStats))
  /\ UNCHANGED <<now, requests, svc, args, notPure>>

(***************************************************************************)
(* parsers.ts: the values of an upstream JSON payload.  An object is the   *)
(* list of its <<key, value>> entries in the order for..in visits them, an *)
(* array the list of its items, a string the list of its characters.       *)
(***************************************************************************)
Undefined == [kind |-> "undefined"]
Str(s) == [kind |-> "string", s |-> s]
Bool(b) == [kind |-> "boolean", b |-> b]
Obj(props) == [kind |-> "object", props |-> props]
Arr(items) == [kind |-> "array", items |-> items]
Entry(key, value) == <<key, value>>

isNullish(v) == v.kind \in {"null", "undefined"}
isArray(value) == value.kind = "array"
isRecord(value) == value.kind = "object"

(* The truth value JavaScript gives v in a condition. *)
truthy(v) ==
  CASE v.kind = "string" -> v.s # <<>>
    [] v.kind = "number" -> v.n # 0
    [] v.kind = "boolean" -> v.b
    [] v.kind \in {"object", "array"} -> TRUE
    [] OTHER -> FALSE

(* key in v, for a record v. *)
hasKey(v, key) == \E i \in DOMAIN v.props : v.props[i][1] = key

(* v[key] and v?.[key] where v is not null or undefined: the entry of an   *)
(* object, the item of an array or the character of a string at a one-digit*)
(* index, undefined otherwise.                                             *)
prop(v, key) ==
  CASE isRecord(v) ->
         IF hasKey(v, key)
         THEN v.props[CHOOSE i \in DOMAIN v.props : v.props[i][1] = key][2]
         ELSE Undefined
    [] isArray(v) ->
         IF IsDigit(key) /\ DigitValue(key) < Len(v.items)
         THEN v.items[DigitValue(key) + 1]
         ELSE Undefined
    [] v.kind = "string" ->
         IF IsDigit(key) /\ DigitValue(key) < Len(v.s)
         THEN Str(<<v.s[DigitValue(key) + 1]>>)
         ELSE Undefined
    [] OTHER -> Undefined

(* v?.[key] *)
optProp(v, key) == IF isNullish(v) THEN Undefined ELSE prop(v, key)

(* The keys for..in visits: those of an object, the indices of an array or *)
(* of a string (the model holds none longer than ten), none otherwise.     *)
keys(v) ==
  CASE isRecord(v) -> [i \in DOMAIN v.props |-> v.props[i][1]]
    [] isArray(v) -> [i \in DOMAIN v.items |-> DigitChars[i]]
    [] v.kind = "string" -> [i \in DOMAIN v.s |-> DigitChars[i]]
    [] OTHER -> <<>>

(* The lists of a list, one after the other. *)
RECURSIVE flat(_)
flat(lists) ==
  IF lists = <<>> THEN <<>> ELSE Head(lists) \o flat(Tail(lists))

(* String(v) *)
RECURSIVE String(_)
String(v) ==
  CASE v.kind = "string" -> v.s
    [] v.kind = "number" -> numberToString(v.n)
    [] v.kind = "boolean" ->
         IF v.b THEN <<"t", "r", "u", "e">> ELSE <<"f", "a", "l", "s", "e">>
    [] v.kind = "null" -> <<"n", "u", "l", "l">>
    [] v.kind = "undefined" ->
         <<"u", "n", "d", "e", "f", "i", "n", "e", "d">>
    [] v.kind = "object" ->
         <<"[", "o", "b", "j", "e", "c", "t", " ",
           "O", "b", "j", "e", "c", "t", "]">>
    [] v.kind = "array" ->
         flat([i \in DOMAIN v.items |->
                 (IF i > 1 THEN <<",">> ELSE <<>>)
                 \o (IF isNullish(v.items[i]) THEN <<>>
                     ELSE String(v.items[i]))])

safeParseFloat(value, fallback) ==
  LET parsed == parseFloat(String(value))
  IN IF isNaN(parsed) THEN fallback ELSE parsed.n

safeParseInt(value, fallback) ==
  LET parsed == parseInt(String(value))
  IN IF isNaN(parsed) THEN fallback ELSE parsed.n

(***************************************************************************)
(* parsers.ts: normalizeLeague.                                            *)
(***************************************************************************)
UnknownId == Str(<<"u", "n", "k", "n", "o", "w", "n">>)
UnknownLeague ==
  Str(<<"U", "n", "k", "n", "o", "w", "n", " ", "L", "e", "a", "g", "u", "e">>)
DefaultTeamName == Str(<<"T", "e", "a", "m">>)
DefaultEndWeek == 17
DefaultSeed == 42

isLeagueStandingsResponse(data) ==
  /\ isRecord(data)
  /\ isRecord(prop(data, "fantasy_content"))
  /\ LET league == prop(prop(data, "fantasy_content"), "league")
     IN /\ isArray(league)
        /\ Len(league.items) >= 2
        /\ isRecord(league.items[1])
        /\ truthy(prop(league.items[1], "league_id"))
        /\ isRecord(league.items[2])
        /\ truthy(prop(league.items[2], "standings"))

(* leagueArray.find(item => isRecord(item) && key in item) *)
findByKey(leagueArray, key) ==
  LET hits == {i \in DOMAIN leagueArray.items :
                 isRecord(leagueArray.items[i])
                 /\ hasKey(leagueArray.items[i], key)}
  IN IF hits = {} THEN Undefined
     ELSE leagueArray.items[CHOOSE i \in hits : \A j \in hits : i <= j]

findStandingsWrapper(leagueArray) == findByKey(leagueArray, "standings")
findLeagueInfo(leagueArray) == findByKey(leagueArray, "league_id")

(* The last truthy value of key among the objects of teamInfoArray, as a   *)
(* string; the fallback when there is none.                                *)
lastInfo(teamInfoArray, key, fallback) ==
  LET hits == {i \in DOMAIN teamInfoArray.items :
                 truthy(optProp(teamInfoArray.items[i], key))}
  IN IF hits = {} THEN fallback
     ELSE Str(String(prop(teamInfoArray.items[
                CHOOSE i \in hits : \A j \in hits : j <= i], key)))

extractTeamInfo(teamInfoArray) ==
  [id |-> lastInfo(teamInfoArray, "team_id", UnknownId),
   teamKey |-> lastInfo(teamInfoArray, "team_key", UnknownId),
   name |-> lastInfo(teamInfoArray, "name", DefaultTeamName)]

(* The NormalizedTeam of a team wrapper, Null for a malformed one. *)
parseTeam(teamWrapper) ==
  LET team == optProp(teamWrapper, "team")
      teamInfoArray == prop(team, "0")
      teamPoints == prop(team, "1")
      teamStandings == prop(team, "2")
      standings == optProp(teamStandings, "team_standings")
      totals == prop(standings, "outcome_totals")
      tiesRaw == optProp(totals, "ties")
      info == extractTeamInfo(teamInfoArray)
  IN IF ~truthy(team) \/ ~isArray(team) THEN Null
     ELSE IF ~isArray(teamInfoArray) THEN Null
     ELSE IF ~truthy(optProp(optProp(teamPoints, "team_points"), "total"))
       THEN Null
     ELSE IF ~truthy(standings) THEN Null
     ELSE [id |-> info.id,
           teamKey |-> info.teamKey,
           name |-> info.name,
           seasonTotal |->
             safeParseFloat(prop(prop(teamPoints, "team_points"), "total"), 0),
           rank |-> safeParseInt(prop(standings, "rank"), 0),
           wins |-> safeParseInt(optProp(totals, "wins"), 0),
           losses |-> safeParseInt(optProp(totals, "losses"), 0),
           ties |-> IF tiesRaw.kind = "number" THEN tiesRaw.n
                    ELSE safeParseInt(tiesRaw, 0)]

(* The teams of teamsData when a malformed entry voids the whole league. *)
parseTeamsAllOrNothing(teamsData) ==
  IF \E i \in DOMAIN keys(teamsData) :
       /\ keys(teamsData)[i] # "count"
       /\ parseTeam(prop(teamsData, keys(teamsData)[i])) = Null
  THEN <<>>
  ELSE flat([i \in DOMAIN keys(teamsData) |->
               IF keys(teamsData)[i] = "count" THEN <<>>
               ELSE <<parseTeam(prop(teamsData, keys(teamsData)[i]))>>])

(* The teams of teamsData in key order, "count" and the malformed ones     *)
(* left out.                                                               *)
parseTeams(teamsData) ==
  flat([i \in DOMAIN keys(teamsData) |->
          LET key == keys(teamsData)[i]
              team == parseTeam(prop(teamsData, key))
          IN IF key = "count" \/ team = Null THEN <<>> ELSE <<team>>])

(* teams.sort((a, b) => a.rank - b.rank): the sort is stable. *)
RECURSIVE insertByRank(_, _)
insertByRank(team, sorted) ==
  IF sorted = <<>> THEN <<team>>
  ELSE IF team.rank < Head(sorted).rank THEN <<team>> \o sorted
  ELSE <<Head(sorted)>> \o insertByRank(team, Tail(sorted))

RECURSIVE sortByRank(_)
sortByRank(teams) ==
  IF teams = <<>> THEN <<>>
  ELSE insertByRank(teams[Len(teams)], sortByRank(SubSeq(teams, 1, Len(teams) - 1)))

(* seededRandom: state = (state * 1103515245 + 12345) & 0x7fffffff, worked *)
(* out without leaving 31 bits: the factors are split in limbs of 15 bits  *)
(* and the parts of the product that fall above bit 30 are dropped.  The   *)
(* number drawn, state / 0x7fffffff, is kept in tenths.                    *)
MaxInt31 == 2147483647
Multiplier == 1103515245
Increment == 12345
TenthOfRange == 214748365
Limb == 32768

addMod(x, y) == IF x > MaxInt31 - y THEN x - (MaxInt31 - y) - 1 ELSE x + y

mulMod(x, y) ==
  LET x0 == x % Limb
      x1 == (x \div Limb) % Limb
      x2 == x \div (Limb * Limb)
      y0 == y % Limb
      y1 == (y \div Limb) % Limb
      y2 == y \div (Limb * Limb)
      low == x0 * y0
      mid == ((x0 * y1 + x1 * y0) % (2 * Limb)) * Limb
      high == ((x0 * y2 + x1 * y1 + x2 * y0) % 2) * (Limb * Limb)
  IN addMod(addMod(low, mid), high)

seededRandom(seed) == [kind |-> "seeded", state |-> seed]

(* Math.random: the numbers it will give, in tenths, told in advance. *)
MathRandom(draws) == [kind |-> "Math.random", draws |-> draws, i |-> 0]

(* The source after one call of random(), and the number that call gave. *)
nextRandom(random) ==
  IF random.kind = "seeded"
  THEN [random EXCEPT !.state = addMod(mulMod(@, Multiplier), Increment)]
  ELSE [random EXCEPT !.i = (@ % Len(random.draws)) + 1]

drawn(random) ==
  IF random.kind = "seeded" THEN random.state \div TenthOfRange
  ELSE random.draws[random.i]

(* Math.max(50, Math.round(avgScore + (random() - 0.5) * variance * 2))    *)
(* with variance = avgScore * 0.3, for a number drawn of tenth / 10.       *)
syntheticScore(team, endWeek, tenth) ==
  LET score == IF team.seasonTotal > 0
               THEN (2 * team.seasonTotal * (70 + 6 * tenth) + 100 * endWeek)
                      \div (200 * endWeek)
               ELSE 70 + 6 * tenth
  IN IF score < 50 THEN 50 ELSE score

(* The fallback scores: for each week from week on, one score per team    *)
(* from the n-th team on, each drawing the next number of the source.      *)
RECURSIVE weekScores(_, _, _, _, _)
weekScores(teams, endWeek, week, n, random) ==
  IF n > Len(teams) THEN [scores |-> <<>>, random |-> random]
  ELSE LET next == nextRandom(random)
           rest == weekScores(teams, endWeek, week, n + 1, next)
       IN [scores |->
             <<[week |-> week,
                teamName |-> teams[n].name,
                score |-> syntheticScore(teams[n], endWeek, drawn(next))]>>
             \o rest.scores,
           random |-> rest.random]

RECURSIVE syntheticScores(_, _, _, _)
syntheticScores(teams, endWeek, week, random) ==
  IF week > endWeek THEN <<>>
  ELSE LET thisWeek == weekScores(teams, endWeek, week, 1, random)
       IN thisWeek.scores
          \o syntheticScores(teams, endWeek, week + 1, thisWeek.random)

(* The scores one scoreboard response carries. *)
MatchupMetaKeys ==
  {"count", "week", "week_start", "week_end", "status", "is_playoffs",
   "is_consolation", "is_matchup_of_the_week", "is_matchup_recap_available"}

matchupTeamWrappers(teams) ==
  flat([i \in DOMAIN keys(teams) |->
          LET teamWrapper == prop(teams, keys(teams)[i])
          IN IF keys(teams)[i] = "count" \/ ~truthy(teamWrapper) THEN <<>>
             ELSE <<teamWrapper>>])

matchupTeams(matchupWrapper) ==
  flat([i \in DOMAIN keys(matchupWrapper) |->
          LET item == prop(matchupWrapper, keys(matchupWrapper)[i])
          IN IF \/ keys(matchupWrapper)[i] \in MatchupMetaKeys
                \/ ~isRecord(item)
                \/ ~truthy(prop(item, "teams"))
                \/ ~isRecord(prop(item, "teams"))
             THEN <<>>
             ELSE matchupTeamWrappers(prop(item, "teams"))])

matchupScore(week, teamWrapper) ==
  LET team == prop(teamWrapper, "team")
      teamInfoArray == prop(team, "0")
      teamStatsObj == prop(team, "1")
      named == IF isArray(teamInfoArray)
               THEN {i \in DOMAIN teamInfoArray.items :
                       isRecord(teamInfoArray.items[i])
                       /\ truthy(prop(teamInfoArray.items[i], "name"))}
               ELSE {}
      teamName == IF named = {} THEN <<>>
                  ELSE String(prop(teamInfoArray.items[
                         CHOOSE i \in named : \A j \in named : i <= j], "name"))
      teamPoints == IF /\ isRecord(teamStatsObj)
                       /\ truthy(prop(teamStatsObj, "team_points"))
                       /\ isRecord(prop(teamStatsObj, "team_points"))
                    THEN safeParseFloat(
                           prop(prop(teamStatsObj, "team_points"), "total"), 0)
                    ELSE 0
  IN IF ~isRecord(teamWrapper) \/ ~truthy(team) THEN <<>>
     ELSE IF ~isArray(team) \/ Len(team.items) < 2 THEN <<>>
     ELSE IF teamName # <<>> /\ teamPoints > 0
       THEN <<[week |-> week, teamName |-> Str(teamName), score |-> teamPoints]>>
     ELSE <<>>

matchupScores(matchups) ==
  flat([i \in DOMAIN keys(matchups) |->
          LET matchupWrapper ==
                optProp(prop(matchups, keys(matchups)[i]), "matchup")
              week == IF truthy(prop(matchupWrapper, "week"))
                      THEN safeParseInt(prop(matchupWrapper, "week"), 0)
                      ELSE 1
              wrappers == matchupTeams(matchupWrapper)
          IN IF \/ keys(matchups)[i] = "count"
                \/ ~truthy(matchupWrapper)
                \/ ~isRecord(matchupWrapper)
             THEN <<>>
             ELSE flat([j \in DOMAIN wrappers |->
                          matchupScore(week, wrappers[j])])])

scoreboardResponseScores(singleScoreboardData) ==
  LET fc == prop(singleScoreboardData, "fantasy_content")
      league == optProp(fc, "league")
      found == IF isArray(league)
               THEN {i \in DOMAIN league.items :
                       isRecord(league.items[i])
                       /\ truthy(prop(league.items[i], "scoreboard"))}
               ELSE {}
      scoreboardWrapper ==
        league.items[CHOOSE i \in found : \A j \in found : i <= j]
      scoreboardData == prop(prop(scoreboardWrapper, "scoreboard"), "0")
  IN IF ~isRecord(singleScoreboardData) THEN <<>>
     ELSE IF ~truthy(league) \/ ~isArray(league) THEN <<>>
     ELSE IF found = {} THEN <<>>
     ELSE IF ~truthy(optProp(scoreboardData, "matchups")) THEN <<>>
     ELSE matchupScores(prop(scoreboardData, "matchups"))

scoreboardScores(scoreboardData) ==
  LET scoreboardArray == IF isArray(scoreboardData) THEN scoreboardData.items
                         ELSE <<scoreboardData>>
  IN IF ~truthy(scoreboardData) THEN <<>>
     ELSE flat([i \in DOMAIN scoreboardArray |->
                  scoreboardResponseScores(scoreboardArray[i])])

(* What the body of normalizeLeague's try block gives: the league, or the  *)
(* exception thrown by reading a property of a null options argument.      *)
Thrown == [kind |-> "thrown"]
EmptyLeague ==
  [id |-> UnknownId, name |-> UnknownId, teams |-> <<>>, points |-> <<>>]

(* a || b *)
orElse(value, fallback) == IF truthy(value) THEN value ELSE fallback

(* options.useDeterministicScores ? seededRandom(options.seed ?? 42)       *)
(*                                : Math.random                            *)
seedOf(seed) == IF isNullish(seed) THEN DefaultSeed ELSE seed.n

randomOfEnvironment(options, mathRandom) == mathRandom

randomOf(options, mathRandom) ==
  IF truthy(prop(options, "useDeterministicScores"))
  THEN seededRandom(seedOf(prop(options, "seed")))
  ELSE mathRandom

(* The league with its points: the scores of the scoreboard or, when there *)
(* are none, the fallback scores.                                          *)
leagueWithPoints(leagueId, leagueName, endWeek, teams, scores, options, mathRandom) ==
  IF scores # <<>>
  THEN [id |-> leagueId, name |-> leagueName, teams |-> teams,
        points |-> scores]
  ELSE IF isNullish(options) THEN Thrown
  ELSE [id |-> leagueId, name |-> leagueName, teams |-> teams,
        points |-> syntheticScores(teams, endWeek, 1,
                                   randomOf(options, mathRandom))]

(* The league with the teams of the standings. *)
leagueWithTeams(leagueId, leagueName, endWeek, standingsArray, scoreboardData, options, mathRandom) ==
  IF \/ ~isArray(standingsArray)
     \/ ~truthy(optProp(prop(standingsArray, "0"), "teams"))
  THEN [id |-> leagueId, name |-> leagueName, teams |-> <<>>,
        points |-> <<>>]
  ELSE leagueWithPoints(
         leagueId, leagueName, endWeek,
         sortByRank(parseTeams(optProp(prop(standingsArray, "0"), "teams"))),
         scoreboardScores(scoreboardData), options, mathRandom)

(* The league of the two elements found in the league array. *)
leagueOf(leagueInfo, standingsWrapper, scoreboardData, options, mathRandom) ==
  IF leagueInfo = Undefined \/ standingsWrapper = Undefined THEN EmptyLeague
  ELSE leagueWithTeams(
         orElse(prop(leagueInfo, "league_id"), UnknownId),
         orElse(prop(leagueInfo, "name"), UnknownLeague),
         safeParseInt(prop(leagueInfo, "end_week"), DefaultEndWeek),
         prop(standingsWrapper, "standings"),
         scoreboardData, options, mathRandom)

leagueArrayOf(standingsData) ==
  prop(prop(standingsData, "fantasy_content"), "league")

normalizeLeagueTry(standingsData, scoreboardData, options, mathRandom) ==
  IF ~isLeagueStandingsResponse(standingsData) THEN EmptyLeague
  ELSE leagueOf(findLeagueInfo(leagueArrayOf(standingsData)),
                findStandingsWrapper(leagueArrayOf(standingsData)),
                scoreboardData,
                IF options = Undefined THEN Obj(<<>>) ELSE options,
                mathRandom)

(* normalizeLeague without its catch block. *)
normalizeLeagueUncaught(standingsData, scoreboardData, options, mathRandom) ==
  normalizeLeagueTry(standingsData, scoreboardData, options, mathRandom)

(* normalizeLeague: the catch block turns every exception into the empty   *)
(* league.                                                                 *)
caught(league) == IF league = Thrown THEN EmptyLeague ELSE league

normalizeLeague(standingsData, scoreboardData, options, mathRandom) ==
  caught(normalizeLeagueTry(standingsData, scoreboardData, options,
                            mathRandom))

(* The payloads normalizeLeague is called with: the elements a league      *)
(* array is made of, and every array of at most MaxLeagueElements of them. *)
TeamWrapper(id, name, total, rank) ==
  Obj(<<Entry("team", Arr(<<
    Arr(<<Obj(<<Entry("team_id", Str(id))>>), Obj(<<Entry("name", Str(name))>>)>>),
    Obj(<<Entry("team_points", Obj(<<Entry("total", Str(total))>>))>>),
    Obj(<<Entry("team_standings", Obj(<<
      Entry("rank", Str(rank)),
      Entry("outcome_totals", Obj(<<Entry("wins", Str(<<"1">>)),
                                    Entry("losses", Str(<<"0">>)),
                                    Entry("ties", Num(0))>>))>>))>>)>>))>>)

(* A team entry without its points sub-object. *)
MalformedTeamWrapper ==
  Obj(<<Entry("team", Arr(<<
    Arr(<<Obj(<<Entry("team_id", Str(<<"3">>))>>)>>),
    Obj(<<>>),
    Obj(<<Entry("team_standings", Obj(<<Entry("rank", Str(<<"1">>))>>))>>)>>))>>)

TeamA == TeamWrapper(<<"1">>, <<"A">>, <<"3", "0", "0">>, <<"2">>)
TeamB == TeamWrapper(<<"2">>, <<"B">>, <<"0">>, <<"1">>)

StandingsWrapper(teamsData) ==
  Obj(<<Entry("standings", Arr(<<Obj(<<Entry("teams", teamsData)>>)>>))>>)

LeagueInfos ==
  {Obj(<<Entry("league_id", Str(<<"7">>)), Entry("name", Str(<<"L">>)),
         Entry("end_week", Str(<<"2">>))>>),
   Obj(<<Entry("league_id", Str(<<"7">>))>>),
   Obj(<<Entry("league_id", Str(<<>>)), Entry("name", Str(<<"L">>))>>)}

StandingsWrappers ==
  {StandingsWrapper(Obj(<<Entry("0", TeamA), Entry("1", TeamB),
                          Entry("count", Num(2))>>)),
   StandingsWrapper(Obj(<<Entry("0", MalformedTeamWrapper), Entry("1", TeamA),
                          Entry("count", Num(2))>>)),
   Obj(<<Entry("standings", Arr(<<>>))>>),
   Obj(<<Entry("standings", Null)>>)}

OtherElements == {Obj(<<Entry("settings", Null)>>), Str(<<"x">>), Null}

LeagueElements == LeagueInfos \cup StandingsWrappers \cup OtherElements

FantasyContent(league) ==
  Obj(<<Entry("fantasy_content", Obj(<<Entry("league", league)>>))>>)

(* The lists of at most n elements of S. *)
RECURSIVE ListsUpTo(_, _)
ListsUpTo(S, n) ==
  IF n = 0 THEN {<<>>}
  ELSE LET shorter == ListsUpTo(S, n - 1)
       IN shorter \cup {Append(l, e) : l \in shorter, e \in S}

(* Standings data that is no league payload at all. *)
ShapelessPayloads ==
  {Null, Undefined, Str(<<"x">>), Arr(<<>>),
   Obj(<<Entry("some", Str(<<"d", "a", "t", "a">>))>>),
   Obj(<<Entry("fantasy_content", Null)>>),
   FantasyContent(Obj(<<>>))}

(* The team entries of a standings element: three well-formed teams, two   *)
(* of them with the same rank, and entries without the points sub-object,  *)
(* with an object in place of the info array, without the standings        *)
(* sub-object and without the team tuple.                                  *)
TeamC == TeamWrapper(<<"3">>, <<"C">>, <<"1", "5", "0">>, <<"2">>)

TeamWithoutInfoArray ==
  Obj(<<Entry("team", Arr(<<
    Obj(<<Entry("team_id", Str(<<"4">>))>>),
    Obj(<<Entry("team_points", Obj(<<Entry("total", Str(<<"9", "0">>))>>))>>),
    Obj(<<Entry("team_standings", Obj(<<Entry("rank", Str(<<"1">>))>>))>>)>>))>>)

TeamWithoutStandings ==
  Obj(<<Entry("team", Arr(<<
    Arr(<<Obj(<<Entry("team_id", Str(<<"5">>))>>)>>),
    Obj(<<Entry("team_points", Obj(<<Entry("total", Str(<<"9", "0">>))>>))>>)>>))>>)

TeamWithoutTuple == Obj(<<Entry("team_key", Str(<<"k">>))>>)

TeamWithoutTotal ==
  Obj(<<Entry("team", Arr(<<
    Arr(<<Obj(<<Entry("team_id", Str(<<"6">>))>>)>>),
    Obj(<<Entry("team_points", Obj(<<Entry("coverage_type", Str(<<"s">>))>>))>>),
    Obj(<<Entry("team_standings", Obj(<<Entry("rank", Str(<<"1">>))>>))>>)>>))>>)

TeamEntries ==
  {TeamA, TeamB, TeamC, MalformedTeamWrapper, TeamWithoutInfoArray,
   TeamWithoutStandings, TeamWithoutTuple, TeamWithoutTotal}

(* The teams object of the entries: keys "0", "1", ... and "count". *)
TeamsData(entries) ==
  Obj([i \in 1..(Len(entries) + 1) |->
         IF i <= Len(entries) THEN Entry(DigitChars[i], entries[i])
         ELSE Entry("count", Num(Len(entries)))])

(* A standings payload with the league info first and the standings second. *)
StandingsOf(entries) ==
  FantasyContent(Arr(<<
    Obj(<<Entry("league_id", Str(<<"7">>)), Entry("name", Str(<<"L">>)),
          Entry("end_week", Str(<<"1">>))>>),
    StandingsWrapper(TeamsData(entries))>>))

MatchupTeam(name, total) ==
  Obj(<<Entry("team", Arr(<<
    Arr(<<Obj(<<Entry("name", Str(name))>>)>>),
    Obj(<<Entry("team_points", Obj(<<Entry("total", Str(total))>>))>>)>>))>>)

(* One scoreboard response: the matchup of a week between A and B. *)
Scoreboard(week, totalA, totalB) ==
  FantasyContent(Arr(<<
    Obj(<<Entry("league_id", Str(<<"7">>))>>),
    Obj(<<Entry("scoreboard", Obj(<<Entry("0", Obj(<<Entry("matchups", Obj(<<
      Entry("0", Obj(<<Entry("matchup", Obj(<<
        Entry("0", Obj(<<Entry("teams", Obj(<<
          Entry("0", MatchupTeam(<<"A">>, totalA)),
          Entry("1", MatchupTeam(<<"B">>, totalB)),
          Entry("count", Num(2))>>))>>)),
        Entry("week", Str(week))>>))>>)),
      Entry("count", Num(1))>>))>>))>>))>>)>>))

ScoreboardPayloads ==
  {Undefined,
   Scoreboard(<<"1">>, <<"1", "2", "0">>, <<"0">>),
   Arr(<<Scoreboard(<<"1">>, <<"1", "2", "0">>, <<"9", "0">>),
         Scoreboard(<<"1">>, <<"1", "1", "0">>, <<"9", "5">>)>>)}

NormalizeOptions ==
  {Undefined, Null,
   Obj(<<Entry("useDeterministicScores", Bool(TRUE))>>),
   Obj(<<Entry("useDeterministicScores", Bool(TRUE)), Entry("seed", Num(1))>>)}

RandomDraws == {<<0>>, <<9, 5>>}

(* What a call leaves to its caller: the value returned or the exception. *)
Outcome(value) == IF value = Thrown THEN Thrown ELSE Returned(value)

NormalizeLeague ==
  /\ svc = "normalizeLeague"
  /\ returned = Null
  /\ \E draws \in RandomDraws :
       returned' = Outcome(normalizeLeague(args.standingsData,
                                           args.scoreboardData, args.options,
                                           MathRandom(draws)))
  /\ UNCHANGED <<now, requests, svc, args, notPure>>

(***************************************************************************)
(* parsers.ts: normalizePlayerStats.  A score is an exact fraction n / d    *)
(* in lowest terms with d > 0, so that a running average and a percentage  *)
(* keep their value; the rounding of double arithmetic is left out.        *)
(***************************************************************************)
RECURSIVE gcd(_, _)
gcd(a, b) == IF b = 0 THEN a ELSE gcd(b, a % b)

abs(n) == IF n < 0 THEN -n ELSE n

Frac(n, d) ==
  LET g == gcd(abs(n), d)
  IN [n |-> (IF n < 0 THEN -1 ELSE 1) * (abs(n) \div g), d |-> d \div g]

Whole(n) == [n |-> n, d |-> 1]
plus(a, b) == Frac(a.n * b.d + b.n * a.d, a.d * b.d)
minus(a, b) == Frac(a.n * b.d - b.n * a.d, a.d * b.d)
times(a, k) == Frac(a.n * k, a.d)
(* a / b for b > 0 *)
over(a, b) == Frac(a.n * b.d, a.d * b.n)
atMost(a, b) == a.n * b.d <= b.n * a.d
magnitude(a) == [n |-> abs(a.n), d |-> a.d]

RECURSIVE sum(_)
sum(fractions) ==
  IF fractions = <<>> THEN Whole(0)
  ELSE plus(Head(fractions), sum(Tail(fractions)))

(* isTeamRosterResponse *)
isTeamRosterResponse(data) ==
  LET team == prop(prop(data, "fantasy_content"), "team")
      rosterWrapper == prop(team, "1")
  IN /\ isRecord(data)
     /\ isRecord(prop(data, "fantasy_content"))
     /\ isArray(team) /\ Len(team.items) >= 2
     /\ isRecord(rosterWrapper) /\ truthy(prop(rosterWrapper, "roster"))

(* The last value of the list that counts as true, fallback without one. *)
lastTruthy(values, fallback) ==
  LET found == {i \in DOMAIN values : truthy(values[i])}
  IN IF found = {} THEN fallback
     ELSE values[CHOOSE i \in found : \A j \in found : j <= i]

UnknownPlayer ==
  Str(<<"U", "n", "k", "n", "o", "w", "n", " ", "P", "l", "a", "y", "e", "r">>)
UnknownPosition == Str(<<"U", "N", "K", "N", "O", "W", "N">>)

(* extractPlayerInfo *)
extractPlayerInfo(playerInfoArray) ==
  LET infos == playerInfoArray.items
      key == lastTruthy([i \in DOMAIN infos |-> optProp(infos[i], "player_key")],
                        Undefined)
      id == lastTruthy([i \in DOMAIN infos |-> optProp(infos[i], "player_id")],
                       Undefined)
  IN [playerKey |-> IF key = Undefined THEN Str(<<>>) ELSE Str(String(key)),
      playerId |-> IF id = Undefined THEN UnknownId ELSE Str(String(id)),
      name |-> lastTruthy([i \in DOMAIN infos |->
                             optProp(optProp(infos[i], "name"), "full")],
                          UnknownPlayer),
      position |-> lastTruthy([i \in DOMAIN infos |->
                                 optProp(infos[i], "display_position")],
                              UnknownPosition),
      team |-> lastTruthy([i \in DOMAIN infos |->
                             optProp(infos[i], "editorial_team_abbr")],
                          Str(<<>>))]

CoverageWeek == Str(<<"w", "e", "e", "k">>)

(* The points after one element of the rest of the player array. *)
afterRestItem(item, points) ==
  LET actual == IF /\ truthy(prop(item, "player_points"))
                   /\ isRecord(prop(item, "player_points"))
                THEN safeParseFloat(prop(prop(item, "player_points"), "total"), 0)
                ELSE points.actualPoints
      projected == IF /\ truthy(prop(item, "player_projected_points"))
                      /\ isRecord(prop(item, "player_projected_points"))
                   THEN safeParseFloat(
                          prop(prop(item, "player_projected_points"), "total"), 0)
                   ELSE points.projectedPoints
      legacy == /\ hasKey(item, "coverage_type") /\ hasKey(item, "total")
                /\ prop(item, "coverage_type") = CoverageWeek
  IN IF ~isRecord(item) THEN points
     ELSE IF legacy /\ actual = 0
       THEN [projectedPoints |-> projected,
             actualPoints |-> safeParseFloat(prop(item, "total"), 0)]
     ELSE IF legacy /\ actual > 0
       THEN [projectedPoints |-> safeParseFloat(prop(item, "total"), 0),
             actualPoints |-> actual]
     ELSE [projectedPoints |-> projected, actualPoints |-> actual]

(* The points after one element of the player info array. *)
afterInfoItem(info, points) ==
  LET actual == optProp(optProp(info, "player_points"), "total")
      projected == optProp(optProp(info, "player_projected_points"), "total")
  IN [projectedPoints |-> IF truthy(projected) THEN safeParseFloat(projected, 0)
                          ELSE points.projectedPoints,
      actualPoints |-> IF truthy(actual) THEN safeParseFloat(actual, 0)
                       ELSE points.actualPoints]

RECURSIVE restPoints(_, _, _)
restPoints(player, i, points) ==
  IF i > Len(player) THEN points
  ELSE restPoints(player, i + 1, afterRestItem(player[i], points))

RECURSIVE infoPoints(_, _, _)
infoPoints(infos, i, points) ==
  IF i > Len(infos) THEN points
  ELSE infoPoints(infos, i + 1, afterInfoItem(infos[i], points))

(* parsePlayerWeekData: Null for a wrapper without the player tuple or     *)
(* without the info array.                                                 *)
parsePlayerWeekData(playerWrapper) ==
  LET player == optProp(playerWrapper, "player")
      playerInfoArray == prop(player, "0")
  IN IF ~truthy(player) \/ ~isArray(player) THEN Null
     ELSE IF ~isArray(playerInfoArray) THEN Null
     ELSE [kind |-> "parsed",
           playerInfo |-> extractPlayerInfo(playerInfoArray),
           points |-> infoPoints(playerInfoArray.items, 1,
                        restPoints(player.items, 2,
                          [projectedPoints |-> 0, actualPoints |-> 0]))]

(* ((actual - projected) / projected) * 100, or 0 without a projection. *)
percentDifference(actualPoints, projectedPoints) ==
  IF projectedPoints.n > 0
  THEN times(over(minus(actualPoints, projectedPoints), projectedPoints), 100)
  ELSE Whole(0)

weekStats(week, projectedPoints, actualPoints) ==
  [week |-> week,
   projectedPoints |-> projectedPoints,
   actualPoints |-> actualPoints,
   difference |-> minus(actualPoints, projectedPoints),
   percentDifference |-> percentDifference(actualPoints, projectedPoints)]

(* The players object of a roster response, Undefined when the response is *)
(* passed over.                                                            *)
rosterPlayers(data) ==
  LET roster == prop(prop(prop(prop(data, "fantasy_content"), "team"), "1"),
                     "roster")
      players == IF truthy(prop(roster, "players")) THEN prop(roster, "players")
                 ELSE optProp(prop(roster, "0"), "players")
  IN IF ~isTeamRosterResponse(data) THEN Undefined
     ELSE IF ~truthy(players) \/ ~isRecord(players) THEN Undefined
     ELSE players

playerKeyOf(playerInfo) ==
  IF truthy(playerInfo.playerKey) THEN playerInfo.playerKey
  ELSE Str(<<"p", "l", "a", "y", "e", "r", "-">> \o playerInfo.playerId.s)

(* The week entry of one player wrapper, none when it does not parse. *)
playerWeek(week, parsed) ==
  IF parsed = Null THEN <<>>
  ELSE <<[playerKey |-> playerKeyOf(parsed.playerInfo),
          playerInfo |-> parsed.playerInfo,
          stats |-> weekStats(week, Whole(parsed.points.projectedPoints),
                              Whole(parsed.points.actualPoints))]>>

(* The week entries of one response, in the key order of its players. *)
responseWeeks(week, players) ==
  flat([i \in DOMAIN keys(players) |->
          IF keys(players)[i] = "count" THEN <<>>
          ELSE playerWeek(week,
                 parsePlayerWeekData(prop(players, keys(players)[i])))])

allWeeks(weeklyRosterResponses) ==
  flat([i \in DOMAIN weeklyRosterResponses |->
          responseWeeks(weeklyRosterResponses[i].week,
                        rosterPlayers(weeklyRosterResponses[i].data))])

(* playerMap after the entries from the i-th on. *)
RECURSIVE collect(_, _, _)
collect(playerMap, entries, i) ==
  IF i > Len(entries) THEN playerMap
  ELSE LET e == entries[i]
           player == IF mapHas(playerMap, e.playerKey)
                     THEN mapGet(playerMap, e.playerKey)
                     ELSE [playerKey |-> e.playerKey,
                           playerId |-> e.playerInfo.playerId,
                           name |-> e.playerInfo.name,
                           position |-> e.playerInfo.position,
                           team |-> e.playerInfo.team,
                           weeklyData |-> <<>>]
       IN collect(mapSet(playerMap, e.playerKey,
                         [player EXCEPT !.weeklyData = Append(@, e.stats)]),
                  entries, i + 1)

RECURSIVE insertByWeek(_, _)
insertByWeek(w, sorted) ==
  IF sorted = <<>> THEN <<w>>
  ELSE IF w.week < Head(sorted).week THEN <<w>> \o sorted
  ELSE <<Head(sorted)>> \o insertByWeek(w, Tail(sorted))

RECURSIVE sortByWeek(_)
sortByWeek(weeklyData) ==
  IF weeklyData = <<>> THEN <<>>
  ELSE insertByWeek(weeklyData[Len(weeklyData)],
                    sortByWeek(SubSeq(weeklyData, 1, Len(weeklyData) - 1)))

(* runningTotal before the entry at index (from 0). *)
runningTotal(weeklyData, index) ==
  sum([i \in 1..index |-> weeklyData[i].actualPoints])

proxyProjectionOwnScore(weeklyData, index) == weeklyData[index + 1].actualPoints

(* The projection taken for a played week that has none: the week's own    *)
(* actual points at index 0, the running average from then on.             *)
proxyProjection(weeklyData, index) ==
  IF index = 0 THEN weeklyData[1].actualPoints
  ELSE over(runningTotal(weeklyData, index), Whole(index))

(* weeklyData after the forEach that fills in the projections. *)
withProxyProjections(weeklyData) ==
  [i \in DOMAIN weeklyData |->
     IF weeklyData[i].projectedPoints.n = 0 /\ weeklyData[i].actualPoints.n > 0
     THEN weekStats(weeklyData[i].week, proxyProjection(weeklyData, i - 1),
                    weeklyData[i].actualPoints)
     ELSE weeklyData[i]]

Threshold == 20

accurateWeeks(weeklyData) ==
  Cardinality({i \in DOMAIN weeklyData :
                 atMost(magnitude(weeklyData[i].percentDifference),
                        Whole(Threshold))})

playedWeekCount(weeklyData) ==
  Cardinality({i \in DOMAIN weeklyData : weeklyData[i].actualPoints.n > 0})

summaryOf(weeklyData, weeksPlayed, totalProjected, totalActual) ==
  [totalProjected |-> totalProjected,
   totalActual |-> totalActual,
   totalDifference |-> minus(totalActual, totalProjected),
   averageProjected |-> IF weeksPlayed > 0
                        THEN over(totalProjected, Whole(weeksPlayed))
                        ELSE Whole(0),
   averageActual |-> IF weeksPlayed > 0
                     THEN over(totalActual, Whole(weeksPlayed))
                     ELSE Whole(0),
   totalWeeks |-> weeksPlayed,
   weeksPlayed |-> weeksPlayed,
   accuracyRate |-> IF weeksPlayed > 0
                    THEN times(over(Whole(accurateWeeks(weeklyData)),
                                    Whole(weeksPlayed)), 100)
                    ELSE Whole(0)]

withWeeklyData(player, weeklyData) ==
  [playerKey |-> player.playerKey, playerId |-> player.playerId,
   name |-> player.name, position |-> player.position, team |-> player.team,
   weeklyData |-> weeklyData,
   summary |-> summaryOf(weeklyData, playedWeekCount(weeklyData),
                 sum([i \in DOMAIN weeklyData |-> weeklyData[i].projectedPoints]),
                 sum([i \in DOMAIN weeklyData |-> weeklyData[i].actualPoints]))]

(* The player with its weeks in order, its projections and its summary. *)
withSummary(player) ==
  withWeeklyData(player, withProxyProjections(sortByWeek(player.weeklyData)))

(* The filter on the players of the map. *)
everPlayed(player) ==
  /\ Len(player.weeklyData) > 0
  /\ \E i \in DOMAIN player.weeklyData : player.weeklyData[i].actualPoints.n > 0

RECURSIVE insertByTotal(_, _)
insertByTotal(p, sorted) ==
  IF sorted = <<>> THEN <<p>>
  ELSE IF ~atMost(p.summary.totalActual, Head(sorted).summary.totalActual)
    THEN <<p>> \o sorted
  ELSE <<Head(sorted)>> \o insertByTotal(p, Tail(sorted))

RECURSIVE sortByTotal(_)
sortByTotal(result) ==
  IF result = <<>> THEN <<>>
  ELSE insertByTotal(result[Len(result)],
                     sortByTotal(SubSeq(result, 1, Len(result) - 1)))

playersOf(playerMap) == [i \in DOMAIN playerMap |-> playerMap[i][2]]

summarised(players) == [i \in DOMAIN players |-> withSummary(players[i])]

normalizePlayerStats(weeklyRosterResponses) ==
  sortByTotal(summarised(SelectSeq(
    playersOf(collect(<<>>, allWeeks(weeklyRosterResponses), 1)), everPlayed)))

(* The roster responses of the calls: player P with and without actual and *)
(* projected points, in the three places the parser reads them from, a     *)
(* second player Q, and a response that is no roster.                      *)
PlayerInfo(key, name) ==
  Arr(<<Obj(<<Entry("player_key", Str(key))>>),
        Obj(<<Entry("name", Obj(<<Entry("full", Str(name))>>))>>)>>)

PlayerP == PlayerInfo(<<"p">>, <<"P">>)
PlayerQ == PlayerInfo(<<"q">>, <<"Q">>)

ActualPoints(total) ==
  Obj(<<Entry("player_points", Obj(<<Entry("total", Str(total))>>))>>)
ProjectedPoints(total) ==
  Obj(<<Entry("player_projected_points", Obj(<<Entry("total", Str(total))>>))>>)
LegacyPoints(total) ==
  Obj(<<Entry("coverage_type", CoverageWeek), Entry("total", Str(total))>>)

RosterPlayer(tuple) == Obj(<<Entry("player", Arr(tuple))>>)

PlayersData(players) ==
  Obj([i \in 1..(Len(players) + 1) |->
         IF i <= Len(players) THEN Entry(DigitChars[i], players[i])
         ELSE Entry("count", Num(Len(players)))])

RosterOf(roster) ==
  Obj(<<Entry("fantasy_content", Obj(<<Entry("team", Arr(<<
    Arr(<<Obj(<<Entry("team_key", Str(<<"t">>))>>)>>),
    Obj(<<Entry("roster", roster)>>)>>))>>))>>)

Roster(players) ==
  RosterOf(Obj(<<Entry("0", Obj(<<Entry("players", PlayersData(players))>>))>>))

Projection == <<"1", "0", "0">>

RosterPayloads ==
  {Obj(<<Entry("error", Str(<<"e">>))>>),
   Roster(<<RosterPlayer(<<PlayerP>>)>>),
   Roster(<<RosterPlayer(<<PlayerP, ActualPoints(<<"-", "2">>)>>)>>),
   Roster(<<RosterPlayer(<<PlayerP, ActualPoints(<<"1", "0", "5">>),
                           ProjectedPoints(Projection)>>)>>),
   Roster(<<RosterPlayer(<<PlayerP, ActualPoints(<<"8", "5">>),
                           ProjectedPoints(Projection)>>)>>),
   Roster(<<RosterPlayer(<<PlayerP, LegacyPoints(<<"1", "2", "2">>),
                           LegacyPoints(Projection)>>)>>),
   Roster(<<RosterPlayer(<<PlayerP, ActualPoints(<<"9", "7">>),
                           ProjectedPoints(Projection)>>)>>),
   Roster(<<RosterPlayer(<<PlayerP, ActualPoints(<<"6", "0">>)>>)>>),
   Roster(<<RosterPlayer(<<
     Arr(PlayerP.items \o <<ProjectedPoints(Projection)>>)>>)>>),
   RosterOf(Obj(<<Entry("players", PlayersData(<<
     RosterPlayer(<<PlayerQ>>),
     Obj(<<Entry("player_key", Str(<<"r">>))>>),
     RosterPlayer(<<PlayerP, LegacyPoints(<<"9", "0">>)>>)>>))>>))}

(* The week of the i-th of n responses: the responses come in the order of *)
(* their weeks, in the opposite order or all for the same week.            *)
WeekOrders == {"ascending", "descending", "same"}

WeekAt(order, i, n) ==
  CASE order = "ascending" -> i
    [] order = "descending" -> n + 1 - i
    [] order = "same" -> 1

NormalizePlayerStats ==
  /\ svc = "normalizePlayerStats"
  /\ returned = Null
  /\ returned' = Returned(normalizePlayerStats(args.weeklyRosterResponses))
  /\ UNCHANGED <<now, requests, svc, args, notPure>>

(* The state of the helpers and operations that hold no state between calls. *)
InitCalls ==
  /\ InitRetry
  /\ InitLeague
  /\ InitSeason

(* No function call is followed. *)
InitPure ==
  /\ args = Null
  /\ returned = Null

InitExt ==
  /\ InitCalls
  /\ InitPure

(***************************************************************************)
(* TokenStore: one StoredToken per user, persisted to tokens.json.         *)
(***************************************************************************)
Users == 1..NUsers
TokenCallers == 1..NTokenCallers
ExpiresIn == {EXPIRES_IN}

(* The instants at which the clock is observed: around every hour and      *)
(* around the 5-minute margin before it.                                   *)
TokenInstants ==
  { t \in { h * EXPIRES_IN * 1000 - m * fiveMinutes - e :
              h \in 0..MaxHours, m \in 0..1, e \in 0..1 } : t >= 0 }

(* A token response of the identity provider; `recv` is the instant the    *)
(* response was received.                                                  *)
AccessToken(n) == [kind |-> "token", id |-> n]

YahooTokens(n, r, e, t) ==
  [access_token |-> AccessToken(n), refresh_token |-> r, expires_in |-> e, recv |-> t]

NoToken == [st |-> "absent"]
StoredToken(toks, expiresAt, userId) ==
  [st |-> "ok", tokens |-> toks, expiresAt |-> expiresAt, userId |-> userId]

EmptyTokenMap == [u \in Users |-> NoToken]

(* Mutation of setTokens: an existing record is updated in place, the new  *)
(* token response without its expiry.                                      *)
setTokensInPlace(map, userId, toks, t) ==
  IF map[userId] = NoToken
  THEN [map EXCEPT ![userId] = StoredToken(toks, t + toks.expires_in * 1000, userId)]
  ELSE [map EXCEPT ![userId].tokens = toks]

(* const expiresAt = Date.now() + tokens.expires_in * 1000;                *)
(* this.tokens.set(userId, {tokens, expiresAt, userId})                    *)
setTokens(map, userId, toks, t) ==
  [map EXCEPT ![userId] = StoredToken(toks, t + toks.expires_in * 1000, userId)]

(* this.tokens.delete(userId) *)
deleteTokens(map, userId) == [map EXCEPT ![userId] = NoToken]

(* Object.fromEntries(this.tokens.entries()), as JSON: the list of the     *)
(* [userId, stored] entries of the Map.                                    *)
RECURSIVE tokenEntries(_, _)
tokenEntries(map, u) ==
  IF u > NUsers THEN <<>>
  ELSE IF map[u] = NoToken THEN tokenEntries(map, u + 1)
  ELSE <<[key |-> u, value |-> map[u]]>> \o tokenEntries(map, u + 1)

TokenFile(entries) == [st |-> "ok", entries |-> entries]

(* Mutation of saveToFile: the file is not rewritten when the Map is empty. *)
saveToFileUnlessEmpty(map, file, wr) ==
  IF tokenEntries(map, 1) = <<>> THEN file
  ELSE CASE wr = "ok" -> TokenFile(tokenEntries(map, 1))
         [] wr = "partial" -> CorruptFile
         [] OTHER -> file

(* saveToFile: writeFileSync(tokenFile, JSON.stringify(data)); an error is *)
(* caught and logged.                                                      *)
saveToFile(map, file, wr) ==
  CASE wr = "ok" -> TokenFile(tokenEntries(map, 1))
    [] wr = "partial" -> CorruptFile
    [] OTHER -> file

(* for (const [userId, stored] of Object.entries(data)) tokens.set(...) *)
RECURSIVE setEntries(_, _, _)
setEntries(map, entries, i) ==
  IF i > Len(entries) THEN map
  ELSE setEntries([map EXCEPT ![entries[i].key] = entries[i].value], entries, i + 1)

(* loadFromFile: a missing file loads nothing; a parse error is caught.    *)
loadFromFile(file) ==
  IF file.st = "ok" THEN setEntries(EmptyTokenMap, file.entries, 1)
  ELSE EmptyTokenMap

(* Mutation of tokenStillValid: the margin test is <= instead of <. *)
tokenStillValidInclusive(stored, t) == t + fiveMinutes <= stored.expiresAt

(* Date.now() + fiveMinutes < stored.expiresAt *)
tokenStillValid(stored, t) == t + fiveMinutes < stored.expiresAt

(* Mutation of refreshFailed: fall back to the stored access token. *)
refreshFailedFallback(stored) == stored.tokens.access_token

(* getAccessToken when refreshToken returned null or threw: return null. *)
refreshFailed(stored) == Null

TokReturn(call, result, failure) ==
  [call EXCEPT !.pc = "done", !.result = result, !.failure = failure]

(* tokenStore.setTokens(userId, tokens) with the response of the OAuth     *)
(* code exchange.                                                          *)
SetTokens(userId, e, wr) ==
  /\ issued < MaxTokens
  /\ issued' = issued + 1
  /\ LET toks == YahooTokens(issued + 1, issued + 1, e, now)
         map == setTokens(tokens, userId, toks, now)
     IN /\ tokens' = map
        /\ tokenFile' = saveToFile(map, tokenFile, wr)
  /\ tokenWrite' = wr
  /\ UNCHANGED <<now, requests, svc, tokCall, sleeperVars, rulesVars, gatewayVars, extVars>>

(* tokenStore.removeTokens(userId) *)
RemoveTokens(userId, wr) ==
  /\ tokens[userId] # NoToken
  /\ LET map == deleteTokens(tokens, userId)
     IN /\ tokens' = map
        /\ tokenFile' = saveToFile(map, tokenFile, wr)
  /\ tokenWrite' = wr
  /\ UNCHANGED <<now, requests, svc, tokCall, issued, sleeperVars, rulesVars, gatewayVars, extVars>>

(* getAccessToken up to its await: no record -> null; a record outside the *)
(* margin -> its access token; else refreshToken, which throws at once if  *)
(* the OAuth client is not configured and otherwise posts the refresh      *)
(* token to the identity provider.                                         *)
GetAccessTokenStart(c, userId, configured) ==
  /\ tokCall[c].pc \in {"idle", "done"}
  /\ LET stored == tokens[userId]
         call == [pc |-> "refresh", user |-> userId, at |-> now, pre |-> stored,
                  attempts |-> 0, upstream |-> 0, sent |-> 0, got |-> Null,
                  result |-> Null, failure |-> "none"]
     IN IF stored = NoToken
        THEN tokCall' = [tokCall EXCEPT ![c] = TokReturn(call, Null, "none")]
        ELSE IF tokenStillValid(stored, now)
        THEN tokCall' = [tokCall EXCEPT ![c] =
                TokReturn(call, stored.tokens.access_token, "none")]
        ELSE IF ~configured
        THEN tokCall' = [tokCall EXCEPT ![c] =
                TokReturn([call EXCEPT !.attempts = 1], refreshFailed(stored), "config")]
        ELSE tokCall' = [tokCall EXCEPT ![c] =
                [call EXCEPT !.attempts = 1, !.upstream = 1,
                             !.sent = stored.tokens.refresh_token]]
  /\ UNCHANGED <<now, requests, svc, tokens, tokenFile, tokenWrite, issued,
                 sleeperVars, rulesVars, gatewayVars, extVars>>

(* The refresh response arrives: setTokens(userId, newTokens), return      *)
(* newTokens.access_token.                                                 *)
RefreshOk(c, e, wr) ==
  /\ tokCall[c].pc = "refresh"
  /\ issued < MaxTokens
  /\ issued' = issued + 1
  /\ LET call == tokCall[c]
         toks == YahooTokens(issued + 1, call.sent, e, now)
         map == setTokens(tokens, call.user, toks, now)
     IN /\ tokens' = map
        /\ tokenFile' = saveToFile(map, tokenFile, wr)
        /\ tokCall' = [tokCall EXCEPT ![c] =
              TokReturn([call EXCEPT !.got = toks.access_token],
                        toks.access_token, "none")]
  /\ tokenWrite' = wr
  /\ UNCHANGED <<now, requests, svc, sleeperVars, rulesVars, gatewayVars, extVars>>

(* The refresh request fails (network error, rejected grant): refreshToken *)
(* logs and returns null, getAccessToken returns null.                     *)
RefreshError(c) ==
  /\ tokCall[c].pc = "refresh"
  /\ tokCall' = [tokCall EXCEPT ![c] =
        TokReturn(tokCall[c], refreshFailed(tokCall[c].pre), "upstream")]
  /\ UNCHANGED <<now, requests, svc, tokens, tokenFile, tokenWrite, issued,
                 sleeperVars, rulesVars, gatewayVars, extVars>>

(* The process restarts: a new TokenStore loads tokens.json; calls in      *)
(* flight are gone.                                                        *)
TokenRestart ==
  /\ tokens' = loadFromFile(tokenFile)
  /\ tokCall' = [c \in TokenCallers |-> Idle]
  /\ UNCHANGED <<now, requests, svc, tokenFile, tokenWrite, issued,
                 sleeperVars, rulesVars, gatewayVars, extVars>>

TickTokens ==
  /\ \E t \in TokenInstants : t > now /\ now' = t
  /\ UNCHANGED <<requests, svc, sleeperVars, rulesVars, gatewayVars, extVars, tokenVars>>

InitTokenStore ==
  /\ tokenFile = NoFile
  /\ tokens = loadFromFile(tokenFile)
  /\ tokenWrite = "none"
  /\ tokCall = [c \in TokenCallers |-> Idle]
  /\ issued = 0

InitTokens ==
  /\ now = 0
  /\ requests = 0
  /\ svc = "tokens"
  /\ InitSleeper
  /\ InitRules
  /\ InitTokenStore
  /\ InitGateway
  /\ InitExt

(* The calls of the callers CS for the users US. *)
NextTokensOn(US, CS) ==
  \/ \E u \in US, e \in ExpiresIn, wr \in WriteOutcomes : SetTokens(u, e, wr)
  \/ \E u \in US, wr \in WriteOutcomes : RemoveTokens(u, wr)
  \/ \E c \in CS, u \in US, cfg \in BOOLEAN : GetAccessTokenStart(c, u, cfg)
  \/ \E c \in CS, e \in ExpiresIn, wr \in WriteOutcomes : RefreshOk(c, e, wr)
  \/ \E c \in CS : RefreshError(c)
  \/ TokenRestart
  \/ TickTokens

(* Concurrent callers for one user. *)
SpecTokens == InitTokens /\ [][NextTokensOn({1}, TokenCallers)]_vars

(* One caller at a time, all users. *)
SpecTokenFile == InitTokens /\ [][NextTokensOn(Users, {1})]_vars

(***************************************************************************)
(* The cache layer: SleeperService and FantasyPointsCalculator share no    *)
(* state but the clock, so a behaviour follows the calls of one of them.   *)
(***************************************************************************)
InitCache ==
  /\ now = 0
  /\ requests = 0
  /\ svc \in {"sleeper", "rules"}
  /\ InitSleeper
  /\ InitRules
  /\ InitTokenStore
  /\ InitGateway
  /\ InitExt

NextCache ==
  \/ NextSleeper
  \/ NextRules
  \/ TickCache

SpecCache == InitCache /\ [][NextCache]_vars

(***************************************************************************)
(* The gateway: the clock starts at an instant long after the epoch, as    *)
(* Date.now() does.                                                        *)
(***************************************************************************)
InitGatewayCalls ==
  /\ now = StartTime
  /\ requests = 0
  /\ svc = "gateway"
  /\ InitSleeper
  /\ InitRules
  /\ InitTokenStore
  /\ InitGateway
  /\ InitExt

SpecGateway == InitGatewayCalls /\ [][NextGateway]_vars

(***************************************************************************)
(* retryRequest on its own.  fn is a request with a timeout, so it settles; *)
(* a timer that was set fires.                                             *)
(***************************************************************************)
InitRetryCalls ==
  /\ now = 0
  /\ requests = 0
  /\ svc = "retry"
  /\ InitSleeper
  /\ InitRules
  /\ InitTokenStore
  /\ InitGateway
  /\ InitExt

RetryFnSettles ==
  RetryFnResolves \/ \E code \in ErrorCodes : RetryFnRejects(code)

SpecRetry ==
  /\ InitRetryCalls
  /\ [][NextRetry]_vars
  /\ WF_vars(RetryFnSettles)
  /\ WF_vars(RetryTimerFires)

(***************************************************************************)
(* getLeague on its own.                                                   *)
(***************************************************************************)
InitLeagueCalls ==
  /\ now = StartTime
  /\ requests = 0
  /\ svc = "league"
  /\ InitSleeper
  /\ InitRules
  /\ InitTokenStore
  /\ InitGateway
  /\ InitExt

SpecLeague == InitLeagueCalls /\ [][NextLeague]_vars

(***************************************************************************)
(* getPlayerSeasonStats on its own.                                        *)
(***************************************************************************)
InitSeasonCalls ==
  /\ now = 0
  /\ requests = 0
  /\ svc = "season"
  /\ InitSleeper
  /\ InitRules
  /\ InitTokenStore
  /\ InitGateway
  /\ InitExt

SpecSeason == InitSeasonCalls /\ [][NextSeason]_vars

(***************************************************************************)
(* The inputs of calculateFantasyPoints: stat records over three fields    *)
(* with a translation and one without, rule tables over three ids with a   *)
(* translation and one without.                                            *)
(***************************************************************************)
FantasyStatValues ==
  [pass_yd |-> {0, 275}, pass_td |-> {0, 2}, pass_int |-> {0, 1},
   def_td |-> {0, 1}]

FantasyStats ==
  UNION {{st \in [S -> {0, 1, 2, 275}] : \A k \in S : st[k] \in FantasyStatValues[k]} :
           S \in SUBSET DOMAIN FantasyStatValues}

FantasyRules == {<<4, 4>>, <<5, Pts(4)>>, <<6, -Pts(2)>>, <<7, Pts(1)>>}

FantasyRuleTables ==
  {t \in SeqsUpTo(FantasyRules, Cardinality(FantasyRules)) :
     \A i, j \in DOMAIN t : i < j => t[i][1] < t[j][1]}

CalculateFantasyPoints ==
  /\ svc = "calculateFantasyPoints"
  /\ returned = Null
  /\ returned' = Returned(calculateFantasyPoints(args.stats, args.scoringRules))
  /\ UNCHANGED <<now, requests, svc, args, notPure>>

(***************************************************************************)
(* FantasyPointsCalculator.getScoringRules: the rule table built from the  *)
(* stat_modifiers of the settings payload.  The values of the model are    *)
(* whole numbers of points.                                                *)
(***************************************************************************)
StatModifier(stat_id, value) == [stat |-> [stat_id |-> stat_id, value |-> value]]

(* The loop `for (const modifier of statModifiers)` from entry i on. *)
RECURSIVE rulesFromModifiers(_, _, _)
rulesFromModifiers(statModifiers, i, scoringRules) ==
  IF i > Len(statModifiers) THEN scoringRules
  ELSE LET statId == statModifiers[i].stat.stat_id
           points == parseFloat(statModifiers[i].stat.value)
       IN rulesFromModifiers(statModifiers, i + 1,
            IF ~isNaN(points) THEN mapSet(scoringRules, statId, Pts(points.n))
            ELSE scoringRules)

(* Mutation of withDefault: the default replaces the rule of the payload. *)
withDefaultAlways(scoringRules, statId) == mapSet(scoringRules, statId, Pts(2))

(* if (!scoringRules.has(statId)) scoringRules.set(statId, 2) *)
withDefault(scoringRules, statId) ==
  IF ~mapHas(scoringRules, statId) THEN mapSet(scoringRules, statId, Pts(2))
  ELSE scoringRules

(* The table of getScoringRules: the rules of the payload, then the        *)
(* defaults for passing (8), receiving (15) and rushing (16) two-point     *)
(* conversions.                                                            *)
buildScoringRules(statModifiers) ==
  withDefault(withDefault(withDefault(
    rulesFromModifiers(statModifiers, 1, <<>>), 8), 15), 16)

ModifierIds == {5, 8, 15, 16}
ModifierValues == {<<"1">>, <<"0">>, <<>>}

StatModifiers ==
  {StatModifier(id, value) : id \in ModifierIds, value \in ModifierValues}

BuildScoringRules ==
  /\ svc = "getScoringRules"
  /\ returned = Null
  /\ returned' = Returned(buildScoringRules(args.statModifiers))
  /\ UNCHANGED <<now, requests, svc, args, notPure>>

(***************************************************************************)
(* The calculator functions on their own: the call is drawn at the start.  *)
(***************************************************************************)
CalculatorCall(call) ==
  \/ \E t \in CalcRuleTables, l \in SeqsUpTo(CalcPlayerStats, MaxStats) :
       call = [fn |-> "calculatePoints", scoringRules |-> t, playerStats |-> l]
  \/ \E t \in {r \in CalcRuleTables : Len(r) = MaxRules},
        l \in SeqsUpTo(CalcWeeklyStats, 2) :
       call = [fn |-> "calculatePointsForWeeks", scoringRules |-> t,
               weeklyStats |-> l]
  \/ \E t \in FantasyRuleTables, st \in FantasyStats :
       call = [fn |-> "calculateFantasyPoints", scoringRules |-> t, stats |-> st]
  \/ \E l \in SeqsUpTo(StatModifiers, MaxModifiers) :
       call = [fn |-> "getScoringRules", statModifiers |-> l]

InitCalculator ==
  /\ now = 0
  /\ requests = 0
  /\ InitSleeper
  /\ InitRules
  /\ InitTokenStore
  /\ InitGateway
  /\ InitCalls
  /\ CalculatorCall(args)
  /\ svc = args.fn
  /\ returned = Null

NextCalculator ==
  \/ CalculatePoints
  \/ CalculatePointsForWeeks
  \/ CalculateFantasyPoints
  \/ BuildScoringRules

SpecCalculator == InitCalculator /\ [][NextCalculator]_vars

(***************************************************************************)
(* normalizeLeague on its own: the call is drawn at the start.             *)
(***************************************************************************)
ParserCall(call) ==
  \E b \in ScoreboardPayloads, o \in NormalizeOptions :
    \/ \E d \in ShapelessPayloads :
         call = [fn |-> "normalizeLeague", standingsData |-> d,
                 scoreboardData |-> b, options |-> o]
    \/ \E l \in ListsUpTo(LeagueElements, MaxLeagueElements) :
         call = [fn |-> "normalizeLeague",
                 standingsData |-> FantasyContent(Arr(l)),
                 scoreboardData |-> b, options |-> o]
    \/ \E l \in ListsUpTo(TeamEntries, MaxTeams) :
         call = [fn |-> "normalizeLeague", standingsData |-> StandingsOf(l),
                 scoreboardData |-> b, options |-> o]

InitParsers ==
  /\ now = 0
  /\ requests = 0
  /\ InitSleeper
  /\ InitRules
  /\ InitTokenStore
  /\ InitGateway
  /\ InitCalls
  /\ ParserCall(args)
  /\ svc = args.fn
  /\ returned = Null

NextParsers == NormalizeLeague

SpecParsers == InitParsers /\ [][NextParsers]_vars

(***************************************************************************)
(* The player statistics normalizer called on lists of roster responses.   *)
(***************************************************************************)
StatsCall(call) ==
  \E l \in ListsUpTo(RosterPayloads, MaxResponses), order \in WeekOrders :
    call = [fn |-> "normalizePlayerStats",
            weeklyRosterResponses |->
              [i \in DOMAIN l |->
                 [week |-> WeekAt(order, i, Len(l)), data |-> l[i]]]]

InitStats ==
  /\ now = 0
  /\ requests = 0
  /\ InitSleeper
  /\ InitRules
  /\ InitTokenStore
  /\ InitGateway
  /\ InitCalls
  /\ StatsCall(args)
  /\ svc = args.fn
  /\ returned = Null

NextStats == NormalizePlayerStats

SpecStats == InitStats /\ [][NextStats]_vars

(***************************************************************************)
(* The week cache under concurrent calls: the calls getPlayerSeasonStats   *)
(* makes for the players of a comparison run side by side in one process   *)
(* and ask for the same weeks; the calls followed are those for the stats  *)
(* of the first week.                                                      *)
(***************************************************************************)
ConcurrentCallers == 1..(NCallers + 1)

InitConcurrent ==
  /\ now = 0
  /\ requests = 0
  /\ svc = "sleeper"
  /\ weekFile = [k \in WeekKeys |-> NoFile]
  /\ weekCall = [c \in ConcurrentCallers |-> Idle]
  /\ InitRules
  /\ InitTokenStore
  /\ InitGateway
  /\ InitExt

NextConcurrent ==
  \/ \E c \in ConcurrentCallers, cw \in CurrentWeeks :
        WeekCallStart(c, "stats", 1, CURRENT_SEASON, cw)
  \/ \E c \in ConcurrentCallers, wr \in WriteOutcomes : WeekFetchOk(c, wr)
  \/ \E c \in ConcurrentCallers : WeekFetchTimeout(c)
  \/ \E c \in ConcurrentCallers : WeekFetchError(c)
  \/ \E c \in ConcurrentCallers : WeekRetry(c)
  \/ TickCache

SpecConcurrent == InitConcurrent /\ [][NextConcurrent]_vars

(***************************************************************************)
(* Claims about the cache layer.                                           *)
(***************************************************************************)
WeekAge(call) == call.at - call.pre.timestamp

WeekDone(c, type) ==
  /\ weekCall[c].pc = "done"
  /\ weekCall[c].type = type
  /\ weekCall[c].pre.st = "ok"

WeekServedFromCache(call) == call.upstream = 0 /\ call.result = call.pre.data
WeekRefetched(call) == call.upstream >= 1 /\ call.result # call.pre.data

(* C1: getWeekStats with a cached entry present: a past week (week <       *)
(* currentWeek) is served from the cache with no upstream request whatever *)
(* the entry's age; the current week is served from the cache while the    *)
(* entry's age is under 1 hour, and from 1 hour on an upstream request is  *)
(* made and the caller never receives the stale value.                     *)
C1_StatsTtl ==
  \A c \in Callers : WeekDone(c, "stats") =>
    LET call == weekCall[c] IN
    /\ call.week < call.currentWeek => WeekServedFromCache(call)
    /\ call.week = call.currentWeek =>
         /\ WeekAge(call) < CURRENT_WEEK_TTL => WeekServedFromCache(call)
         /\ WeekAge(call) >= CURRENT_WEEK_TTL => WeekRefetched(call)

(* C1 witness: a current-week stats entry aged exactly 1 hour was          *)
(* refetched and the caller got the new data.                              *)
C1_Witness ==
  \E c \in Callers :
    /\ WeekDone(c, "stats")
    /\ weekCall[c].week = weekCall[c].currentWeek
    /\ WeekAge(weekCall[c]) = CURRENT_WEEK_TTL
    /\ weekCall[c].upstream >= 1
    /\ weekCall[c].result.kind = "data"

(* C6: a failed upstream fetch leaves the stored entry of its key          *)
(* unchanged (same value, same storedAt) in both tiers: week stats, week   *)
(* projections and league scoring rules alike.                             *)
C6_FailureKeepsEntry ==
  /\ \A c \in Callers :
       (weekCall[c].pc = "done" /\ weekCall[c].failed) => weekCall[c].kept
  /\ \A c \in RulesCallers :
       (rulesCall[c].pc = "done" /\ rulesCall[c].failed) => rulesCall[c].kept

(* C6 witness: a scoring-rules fetch failed while both tiers held a stale  *)
(* entry, and both entries are still there.                                *)
C6_Witness ==
  \E c \in RulesCallers :
    /\ rulesCall[c].pc = "done"
    /\ rulesCall[c].failed
    /\ rulesCall[c].preMem.st = "ok"
    /\ rulesCall[c].preFile.st = "ok"
    /\ rulesMem[rulesCall[c].league] = rulesCall[c].preMem
    /\ rulesFile[rulesCall[c].league] = rulesCall[c].preFile

(* C7 as stated: a cached projection snapshot for the current or a future  *)
(* week is served from the cache until its age reaches 24 hours.           *)
C7_Original ==
  \A c \in Callers :
    (WeekDone(c, "projections") /\ weekCall[c].week >= weekCall[c].currentWeek) =>
      /\ WeekAge(weekCall[c]) < OTHER_WEEK_TTL => WeekServedFromCache(weekCall[c])
      /\ WeekAge(weekCall[c]) >= OTHER_WEEK_TTL => WeekRefetched(weekCall[c])

(* C7 amended: a cached projection snapshot for a future week (week >      *)
(* currentWeek) is served from the cache until its age reaches 24 hours;   *)
(* one for the current week is served until its age reaches 1 hour.        *)
C7_ProjectionTtl ==
  \A c \in Callers : WeekDone(c, "projections") =>
    LET call == weekCall[c] IN
    /\ call.week > call.currentWeek =>
         /\ WeekAge(call) < OTHER_WEEK_TTL => WeekServedFromCache(call)
         /\ WeekAge(call) >= OTHER_WEEK_TTL => WeekRefetched(call)
    /\ call.week = call.currentWeek =>
         /\ WeekAge(call) < CURRENT_WEEK_TTL => WeekServedFromCache(call)
         /\ WeekAge(call) >= CURRENT_WEEK_TTL => WeekRefetched(call)

(* C7 witness: a future-week projection older than 1 hour served from the  *)
(* cache.                                                                  *)
C7_Witness ==
  \E c \in Callers :
    /\ WeekDone(c, "projections")
    /\ weekCall[c].week > weekCall[c].currentWeek
    /\ WeekAge(weekCall[c]) >= CURRENT_WEEK_TTL
    /\ WeekServedFromCache(weekCall[c])

(* C8: scoring rules returned without an upstream fetch were received from *)
(* the provider less than 24 hours before; every entry of either tier      *)
(* carries the instant its table was received as its storedAt, also after  *)
(* a promotion from the file into memory.                                  *)
C8_RulesNeverOlderThanTtl ==
  /\ \A c \in RulesCallers :
       (rulesCall[c].pc = "done" /\ ~rulesCall[c].failed /\ rulesCall[c].upstream = 0) =>
          rulesCall[c].at - rulesCall[c].result.born < CACHE_DURATION_MS
  /\ \A l \in Leagues :
       /\ rulesMem[l].st = "ok" => rulesMem[l].timestamp = rulesMem[l].scoringRules.born
       /\ rulesFile[l].st = "ok" => rulesFile[l].timestamp = rulesFile[l].scoringRules.born

(* C8 witness: after a restart a call found memory empty, promoted the     *)
(* file's entry and returned it; the entry in memory has the file's        *)
(* storedAt, which is earlier than the promotion.                          *)
C8_Witness ==
  \E c \in RulesCallers :
    /\ rulesCall[c].pc = "done"
    /\ rulesCall[c].upstream = 0
    /\ rulesCall[c].preMem.st = "absent"
    /\ rulesCall[c].preFile.st = "ok"
    /\ rulesMem[rulesCall[c].league].st = "ok"
    /\ rulesMem[rulesCall[c].league].timestamp = rulesCall[c].preFile.timestamp
    /\ rulesCall[c].at > rulesCall[c].preFile.timestamp

(***************************************************************************)
(* Claims about the credential store.                                      *)
(***************************************************************************)
TokenDone(c) == tokCall[c].pc = "done" /\ tokCall[c].pre # NoToken

(* C2: getAccessToken for a user with a stored record returns the stored   *)
(* access token with no upstream call exactly when now + 5 minutes <       *)
(* expiresAt; otherwise it attempts a refresh, and a token it returns is   *)
(* the newly issued one, never the stored one.                             *)
C2_AccessTokenMargin ==
  \A c \in TokenCallers : TokenDone(c) =>
    LET call == tokCall[c] IN
    IF call.at + fiveMinutes < call.pre.expiresAt
    THEN /\ call.attempts = 0
         /\ call.upstream = 0
         /\ call.result = call.pre.tokens.access_token
    ELSE /\ call.attempts = 1
         /\ call.result # call.pre.tokens.access_token
         /\ call.result # Null => (call.upstream = 1 /\ call.result = call.got)

(* C2 witness: a call made exactly 5 minutes before expiry refreshed and   *)
(* returned the new token.                                                 *)
C2_Witness ==
  \E c \in TokenCallers :
    /\ TokenDone(c)
    /\ tokCall[c].at + fiveMinutes = tokCall[c].pre.expiresAt
    /\ tokCall[c].result # Null
    /\ tokCall[c].result = tokCall[c].got

(* C3: when the refresh fails (network error, rejected grant, missing      *)
(* OAuth configuration) getAccessToken returns null after exactly one      *)
(* refresh attempt and never the old stored access token.                  *)
C3_RefreshFailureGivesNull ==
  \A c \in TokenCallers :
    (tokCall[c].pc = "done" /\ tokCall[c].failure # "none") =>
       /\ tokCall[c].result = Null
       /\ tokCall[c].attempts = 1
       /\ tokCall[c].upstream = (IF tokCall[c].failure = "config" THEN 0 ELSE 1)

(* C3 witness: a refresh request failed upstream and the call returned     *)
(* null although a record was stored.                                      *)
C3_Witness ==
  \E c \in TokenCallers :
    /\ TokenDone(c)
    /\ tokCall[c].failure = "upstream"
    /\ tokCall[c].result = Null
    /\ tokens[tokCall[c].user] = tokCall[c].pre

(* C9: every stored record pairs its token response with the expiresAt     *)
(* computed from that response (the instant it was received plus its       *)
(* expires_in), under every interleaving of calls, refresh completions and *)
(* setTokens.                                                              *)
C9_TokenPairedWithItsExpiry ==
  \A u \in Users : tokens[u] # NoToken =>
    /\ tokens[u].expiresAt = tokens[u].tokens.recv + tokens[u].tokens.expires_in * 1000
    /\ tokens[u].userId = u

(* C9 witness: a refresh completed and replaced the user's record, which   *)
(* had been replaced by another token response while the refresh was in    *)
(* flight, with a second refresh for the same user still in flight.        *)
C9_Witness ==
  \E c, d \in TokenCallers :
    /\ c # d
    /\ TokenDone(c)
    /\ tokCall[c].result # Null
    /\ tokCall[c].upstream = 1
    /\ tokens[tokCall[c].user] # NoToken
    /\ tokens[tokCall[c].user].tokens.access_token = tokCall[c].result
    /\ tokCall[d].pc = "refresh"
    /\ tokCall[d].user = tokCall[c].user
    /\ tokCall[c].result.id > tokCall[c].pre.tokens.access_token.id + 1

(* C10: after a setTokens, a successful refresh or a removeTokens whose    *)
(* file write succeeded, tokens.json holds exactly the in-memory map: a    *)
(* TokenStore constructed from it has the same users, tokens and           *)
(* expiresAt.                                                              *)
C10_FileHoldsTheMap ==
  tokenWrite = "ok" => loadFromFile(tokenFile) = tokens

(* C10 witness: two users are stored, one of them by a refresh, and the    *)
(* file written last holds both.                                           *)
C10_Witness ==
  /\ tokenWrite = "ok"
  /\ \A u \in {1, 2} : tokens[u] # NoToken
  /\ Len(tokenFile.entries) = 2
  /\ \E c \in TokenCallers :
       /\ tokCall[c].pc = "done"
       /\ tokCall[c].upstream = 1
       /\ tokCall[c].result # Null

(***************************************************************************)
(* Claims about the gateway.                                               *)
(***************************************************************************)
(* C4: any two requests to the primary provider, whoever the callers and   *)
(* whichever FantasyService instances and code paths sent them, are        *)
(* started at least minDelayMs (50 ms) apart.                              *)
C4_MinSpacing ==
  \A m, n \in DOMAIN sent :
    m < n => sent[n].at - sent[m].at >= minDelayMs

PlayerStatsDone(c) ==
  gwCall[c].pc = "done" /\ gwCall[c].op = "getPlayerStats"

(* The weeks of the requests a getPlayerStats call started, in order. *)
FetchedWeeks(call) ==
  [k \in 1..Len(call.responses) |-> sent[call.base + k].week]

SucceededWeeks(call) ==
  {call.responses[k].week :
     k \in {j \in DOMAIN call.responses : call.responses[j].data # Null}}

(* C5: getPlayerStats(teamKey, startWeek, endWeek) starts one fetch for    *)
(* every week of the range, whatever the other weeks' outcomes; it fails   *)
(* exactly when no week's fetch succeeded; and otherwise its result        *)
(* reports the requested range and, as weeksRetrieved, the number of weeks *)
(* whose fetch succeeded.                                                  *)
C5_PartialFailure ==
  \A c \in GatewayCallers :
    PlayerStatsDone(c) =>
      LET call == gwCall[c]
          range == call.startWeek..call.endWeek
      IN /\ Len(call.responses) = Cardinality(range)
         /\ \A w \in range : FetchedWeeks(call)[w - call.startWeek + 1] = w
         /\ \A k \in DOMAIN call.responses :
              call.responses[k].week = sent[call.base + k].week
         /\ call.threw <=> SucceededWeeks(call) = {}
         /\ ~call.threw =>
              /\ call.result.weeksRetrieved = Cardinality(SucceededWeeks(call))
              /\ call.result.weekRange =
                   [start |-> call.startWeek, end |-> call.endWeek]

(* C5 witness: a call over two weeks returned with one week fetched and    *)
(* the other failed.                                                       *)
C5_Witness ==
  \E c \in GatewayCallers :
    /\ PlayerStatsDone(c)
    /\ gwCall[c].endWeek = gwCall[c].startWeek + 1
    /\ ~gwCall[c].threw
    /\ gwCall[c].result.weeksRetrieved = 1
    /\ \E k \in DOMAIN gwCall[c].responses : gwCall[c].responses[k].data = Null

(***************************************************************************)
(* Claims about retryRequest.                                              *)
(***************************************************************************)
RetryRunning == retryCall.pc \in {"fn", "backoff"}
RetryDone == retryCall.pc = "done"

C11_Safe ==
  retryCall.pc # "idle" =>
    LET call == retryCall
        made == Len(call.calls)
    IN /\ made <= 3
       /\ Len(call.timers) = IF call.pc = "backoff" THEN made ELSE made - 1
       /\ \A k \in DOMAIN call.timers :
            /\ call.errors[k].code = "ETIMEDOUT"
            /\ call.errors[k].attempt = k
            /\ call.timers[k] = IF k = 1 THEN 1000 ELSE 2 * call.timers[k - 1]
            /\ k < made => call.calls[k + 1] - call.errors[k].at >= call.timers[k]
       /\ \A k \in DOMAIN call.errors :
            call.errors[k].code # "ETIMEDOUT" =>
              call.pc = "done" /\ call.outcome = call.errors[k]
       /\ call.pc = "done" =>
            /\ call.outcome.attempt = made
            /\ call.outcome.kind = "value" => Len(call.errors) = made - 1
            /\ call.outcome.kind = "error" =>
                 /\ call.outcome = call.errors[made]
                 /\ call.outcome.code # "ETIMEDOUT" \/ made = 3

(* C11: retryRequest(fn) calls fn at most three times, calls it again only *)
(* after an ETIMEDOUT rejection, sets a timer of 1000 ms before the second *)
(* call and of twice that before the third, returns the value of the first *)
(* call that resolved, rethrows any other error at once and the last error *)
(* after the third rejection, and every call of it returns or throws.      *)
C11_RetryRequest == []C11_Safe /\ (RetryRunning ~> RetryDone)

(* C11 witness: three calls of fn, all timed out, the third error thrown   *)
(* after timers of 1000 ms and 2000 ms.                                    *)
C11_Witness ==
  /\ RetryDone
  /\ Len(retryCall.calls) = 3
  /\ retryCall.timers = <<1000, 2000>>
  /\ retryCall.outcome.kind = "error"
  /\ retryCall.outcome.code = "ETIMEDOUT"

(***************************************************************************)
(* Claims about getLeague.                                                 *)
(***************************************************************************)
LeagueDone == leagueCall.pc = "done"

RECURSIVE SeqToSet(_)
SeqToSet(seq) ==
  IF seq = <<>> THEN {} ELSE {Head(seq)} \cup SeqToSet(Tail(seq))

(* C12: in getLeague a failed scoreboard fetch for one week does not abort *)
(* the other weeks: once the standings are fetched, every week             *)
(* 1..currentWeek is attempted, and the scoreboards of all the weeks that  *)
(* succeeded are passed to the normalizer.                                 *)
C12_EveryWeekAttempted ==
  (LeagueDone /\ ~leagueCall.threw) =>
    /\ SeqToSet(leagueCall.attempted) = 1..LEAGUE_CURRENT_WEEK
    /\ SeqToSet(leagueCall.result.scoreboards) =
         {Data(w) : w \in SeqToSet(leagueCall.attempted)
                           \ {f.week : f \in SeqToSet(leagueCall.failures)}}

(* C14: a getLeague call one of whose requests was rejected with HTTP 401  *)
(* ends by throwing the authentication failure ("Not authorized. Please    *)
(* reconnect with Yahoo."), never in a result or a generic failure.        *)
C14_UnauthorizedSurfaces ==
  (LeagueDone /\ \E f \in SeqToSet(leagueCall.failures) : f.error = "401") =>
    /\ leagueCall.threw
    /\ leagueCall.message = "Not authorized. Please reconnect with Yahoo."

(***************************************************************************)
(* Claims about getPlayerSeasonStats.                                      *)
(***************************************************************************)
SeasonDone == seasonCall.pc = "done" /\ seasonCall.found

SeasonFailedWeeks ==
  {seasonCall.startWeek + k - 1 :
     k \in {j \in DOMAIN seasonCall.stats : seasonCall.stats[j] = "failed"}}

(* C13: getPlayerSeasonStats fails when the stats fetch failed for every   *)
(* week of the range, and when it failed for some weeks only the result    *)
(* holds the weeks that were retrieved and no more, so that no week whose  *)
(* fetch failed is presented as a week with zero points.                   *)
C13_FailedWeeksNotPresented ==
  SeasonDone =>
    LET range == seasonCall.startWeek..seasonCall.endWeek
    IN /\ (range # {} /\ SeasonFailedWeeks = range) => seasonCall.threw
       /\ ~seasonCall.threw =>
            /\ Len(seasonCall.result.weeklyData) =
                 Cardinality(range \ SeasonFailedWeeks)
            /\ \A k \in DOMAIN seasonCall.result.weeklyData :
                 seasonCall.result.weeklyData[k].week \notin SeasonFailedWeeks

RECURSIVE SumTo(_, _)
SumTo(f, n) == IF n = 0 THEN 0 ELSE f[n] + SumTo(f, n - 1)

(* The stat ids a stat_id denotes: the number itself, or the number whose  *)
(* decimal form the string is.                                             *)
IdsDenoted(stat_id) ==
  IF stat_id.type = "number" THEN {stat_id.n}
  ELSE {n \in CalcStatIds : numberToString(n) = stat_id.s}

ValuesDenoted(value) == {v \in CalcStatValues : numberToString(v) = value}

(* value x rule[statId] of one entry, zero when its id is no key. *)
Contribution(scoringRules, statObj) ==
  LET ids == IdsDenoted(statObj.stat.stat_id)
      vals == ValuesDenoted(statObj.stat.value)
      hits == {i \in DOMAIN scoringRules : scoringRules[i][1] \in ids}
  IN IF hits = {} \/ vals = {} THEN 0
     ELSE (CHOOSE v \in vals : TRUE) * scoringRules[CHOOSE i \in hits : TRUE][2]

ExpectedPoints(scoringRules, playerStats) ==
  SumTo([k \in DOMAIN playerStats |-> Contribution(scoringRules, playerStats[k])],
        Len(playerStats))

(* C16: calculatePoints, and calculatePointsForWeeks for every week,       *)
(* return the sum of value x rule[statId] over the entries whose stat id,  *)
(* a number or a numeric string, is a key of the rule table; the other     *)
(* entries add nothing and raise no error.                                 *)
C16_PointsAreTheRuleSum ==
  returned # Null =>
    /\ svc = "calculatePoints" =>
         returned.value = ExpectedPoints(args.scoringRules, args.playerStats)
    /\ svc = "calculatePointsForWeeks" =>
         /\ Len(returned.value) = Len(args.weeklyStats)
         /\ \A k \in DOMAIN args.weeklyStats :
              /\ returned.value[k].week = args.weeklyStats[k].week
              /\ returned.value[k].points =
                   ExpectedPoints(args.scoringRules, args.weeklyStats[k].stats)

(* C16 witness: a list with a numeric-string id that is a key and an id    *)
(* that is not, scored by the key's rule alone.                            *)
C16_Witness ==
  /\ svc = "calculatePoints"
  /\ returned # Null
  /\ args.scoringRules = <<<<15, Pts(4)>>>>
  /\ args.playerStats = <<PlayerStat(StringId(<<"1", "5">>), <<"3">>),
                          PlayerStat(NumberId(99), <<"3">>)>>
  /\ returned.value = 3 * Pts(4)

RECURSIVE SumOver(_, _)
SumOver(S, f) ==
  IF S = {} THEN 0
  ELSE LET x == CHOOSE y \in S : TRUE IN f[x] + SumOver(S \ {x}, f)

(* The stats of the record that a rule of the table scores, each with the  *)
(* points of its rule.                                                     *)
ScoredStats(stats, scoringRules) ==
  {k \in DOMAIN stats :
     \E i \in DOMAIN scoringRules :
       /\ scoringRules[i][1] \in DOMAIN yahooToSleeper
       /\ yahooToSleeper[scoringRules[i][1]] = k}

RuleOfStat(scoringRules, k) ==
  scoringRules[CHOOSE i \in DOMAIN scoringRules :
                 /\ scoringRules[i][1] \in DOMAIN yahooToSleeper
                 /\ yahooToSleeper[scoringRules[i][1]] = k][2]

(* C17: calculateFantasyPoints returns as points the sum of statValue x    *)
(* rulePoints over the stats of the record whose key translates to an id   *)
(* of the rule table, and as breakdown one line for each of them with a    *)
(* nonzero value and no other line, each with its stat's value and points, *)
(* so that the points of the lines add up to the total.                    *)
C17_FantasyPointsAndBreakdown ==
  (svc = "calculateFantasyPoints" /\ returned # Null) =>
    LET scored == ScoredStats(args.stats, args.scoringRules)
        lines == returned.value.breakdown
    IN /\ returned.value.points =
            SumOver(scored, [k \in scored |->
                       args.stats[k] * RuleOfStat(args.scoringRules, k)])
       /\ {lines[n].stat : n \in DOMAIN lines} =
            {k \in scored : args.stats[k] # 0}
       /\ Len(lines) = Cardinality({k \in scored : args.stats[k] # 0})
       /\ \A n \in DOMAIN lines :
            /\ lines[n].value = args.stats[lines[n].stat]
            /\ lines[n].points =
                 lines[n].value * RuleOfStat(args.scoringRules, lines[n].stat)
       /\ SumTo([n \in DOMAIN lines |-> lines[n].points], Len(lines)) =
            returned.value.points

(* C17 witness: rules {passing yards 0.04, passing TD 4, interception -2}  *)
(* and stats {275, 2, 1} give 17 points in three lines.                    *)
C17_Witness ==
  /\ svc = "calculateFantasyPoints"
  /\ returned # Null
  /\ args.scoringRules = <<<<4, 4>>, <<5, Pts(4)>>, <<6, -Pts(2)>>>>
  /\ args.stats = [pass_yd |-> 275, pass_td |-> 2, pass_int |-> 1]
  /\ returned.value.points = Pts(17)
  /\ Len(returned.value.breakdown) = 3

(* The rule the payload carries for an id: its last modifier with a        *)
(* numeric value; none when the set is empty.                              *)
UsableModifiers(statModifiers, id) ==
  {i \in DOMAIN statModifiers :
     /\ statModifiers[i].stat.stat_id = id
     /\ statModifiers[i].stat.value \in {<<"1">>, <<"0">>}}

PayloadRule(statModifiers, id) ==
  LET last == CHOOSE i \in UsableModifiers(statModifiers, id) :
                \A j \in UsableModifiers(statModifiers, id) : j <= i
  IN IF statModifiers[last].stat.value = <<"1">> THEN Pts(1) ELSE 0

(* The ids of the table that hold a default: no rule of the payload. *)
DefaultedIds ==
  {returned.value[i][1] : i \in
     {j \in DOMAIN returned.value :
        UsableModifiers(args.statModifiers, returned.value[j][1]) = {}}}

(* C18 as stated: two stat identifiers can receive a default, so no table  *)
(* holds more than two defaults.                                           *)
C18_Original ==
  (svc = "getScoringRules" /\ returned # Null) =>
    Cardinality(DefaultedIds) <= 2

(* C18 amended: each of the three two-point-conversion ids (8 passing, 15  *)
(* receiving, 16 rushing) holds the default of 2 points exactly when the   *)
(* payload carries no usable rule for it and the payload's value           *)
(* otherwise; no other id holds a default.                                 *)
C18_TwoPointDefaults ==
  (svc = "getScoringRules" /\ returned # Null) =>
    LET table == returned.value
    IN /\ \A i, j \in DOMAIN table : i # j => table[i][1] # table[j][1]
       /\ \A id \in ModifierIds :
            IF UsableModifiers(args.statModifiers, id) # {}
            THEN /\ mapHas(table, id)
                 /\ mapGet(table, id) = PayloadRule(args.statModifiers, id)
            ELSE IF id \in {8, 15, 16}
            THEN mapHas(table, id) /\ mapGet(table, id) = Pts(2)
            ELSE ~mapHas(table, id)
       /\ \A i \in DOMAIN table : table[i][1] \in ModifierIds

(* C18 witness: the payload sets passing two-point conversions to 0 and    *)
(* has an unusable value for the receiving ones: 8 keeps 0, 15 and 16 get  *)
(* the default.                                                            *)
C18_Witness ==
  /\ svc = "getScoringRules"
  /\ returned # Null
  /\ args.statModifiers = <<StatModifier(8, <<"0">>), StatModifier(15, <<>>)>>
  /\ returned.value = <<<<8, 0>>, <<15, Pts(2)>>, <<16, Pts(2)>>>>

(***************************************************************************)
(* Claims about normalizeLeague.                                           *)
(***************************************************************************)
NormalizeDone == svc = "normalizeLeague" /\ returned # Null

(* The items of the league array of a payload, none when there is no array. *)
LeagueItems(data) ==
  LET league == optProp(optProp(data, "fantasy_content"), "league")
  IN IF isArray(league) THEN league.items ELSE <<>>

(* The places of the league array that carry the discriminator key. *)
Carrying(data, key) ==
  {i \in DOMAIN LeagueItems(data) :
     isRecord(LeagueItems(data)[i]) /\ hasKey(LeagueItems(data)[i], key)}

(* Both discriminators are present, each in one element and with a value. *)
BothDiscriminators(data) ==
  /\ Cardinality(Carrying(data, "league_id")) = 1
  /\ Cardinality(Carrying(data, "standings")) = 1
  /\ \A i \in Carrying(data, "league_id") :
       truthy(prop(LeagueItems(data)[i], "league_id"))
  /\ \A i \in Carrying(data, "standings") :
       truthy(prop(LeagueItems(data)[i], "standings"))

(* The payload with the same two elements and nothing else, the league     *)
(* info first.                                                             *)
InOrder(data) ==
  FantasyContent(Arr(
    <<LeagueItems(data)[CHOOSE i \in Carrying(data, "league_id") : TRUE],
      LeagueItems(data)[CHOOSE i \in Carrying(data, "standings") : TRUE]>>))

(* C19: when both discriminators are present in the league array,          *)
(* normalizeLeague returns the league identity and the teams it returns    *)
(* for the same two elements in the order info, standings: the order of    *)
(* the elements and the elements added before or between them make no      *)
(* difference.                                                             *)
C19_ScanNotPosition ==
  NormalizeDone /\ BothDiscriminators(args.standingsData)
  => LET inOrder == normalizeLeague(InOrder(args.standingsData),
                                    args.scoreboardData, args.options,
                                    MathRandom(<<0>>))
     IN /\ returned.value.id = inOrder.id
        /\ returned.value.teams = inOrder.teams

(* No element of the league array carries a discriminator, or there is no  *)
(* league array at all.                                                    *)
NoDiscriminator(data) ==
  Carrying(data, "league_id") = {} /\ Carrying(data, "standings") = {}

(* C20: normalizeLeague never throws, whatever its arguments are, and for  *)
(* standings data without the discriminator fields it returns the empty    *)
(* league: id "unknown" and no team.                                       *)
C20_NeverThrows ==
  NormalizeDone
  => /\ returned # Thrown
     /\ NoDiscriminator(args.standingsData)
        => returned.value.id = UnknownId /\ returned.value.teams = <<>>

(* A call with an empty league array has returned. *)
C20_Witness ==
  /\ NormalizeDone
  /\ args.standingsData = FantasyContent(Arr(<<>>))
  /\ returned = Returned(EmptyLeague)

(* The entries of the teams object of a payload, "count" left out. *)
TeamEntriesOf(data) ==
  LET wrappers == {i \in DOMAIN LeagueItems(data) :
                     isRecord(LeagueItems(data)[i])
                     /\ hasKey(LeagueItems(data)[i], "standings")}
      first == CHOOSE i \in wrappers : \A j \in wrappers : i <= j
      teamsData ==
        optProp(prop(prop(LeagueItems(data)[first], "standings"), "0"), "teams")
  IN IF wrappers = {} \/ ~isRecord(teamsData) THEN <<>>
     ELSE SelectSeq(teamsData.props, LAMBDA e : e[1] # "count")

(* The well-formed team entries and the team each of them describes. *)
WellFormedTeams == {TeamA, TeamB, TeamC}

TeamDescribed(wrapper) ==
  CASE wrapper = TeamA ->
         [id |-> Str(<<"1">>), teamKey |-> UnknownId, name |-> Str(<<"A">>),
          seasonTotal |-> 300, rank |-> 2, wins |-> 1, losses |-> 0,
          ties |-> 0]
    [] wrapper = TeamB ->
         [id |-> Str(<<"2">>), teamKey |-> UnknownId, name |-> Str(<<"B">>),
          seasonTotal |-> 0, rank |-> 1, wins |-> 1, losses |-> 0, ties |-> 0]
    [] wrapper = TeamC ->
         [id |-> Str(<<"3">>), teamKey |-> UnknownId, name |-> Str(<<"C">>),
          seasonTotal |-> 150, rank |-> 2, wins |-> 1, losses |-> 0,
          ties |-> 0]

(* A team entry is malformed when the team tuple, the info array, the      *)
(* points sub-object with its total, or the standings sub-object is        *)
(* missing.                                                                *)
MalformedEntry(wrapper) ==
  LET team == optProp(wrapper, "team")
      points == optProp(prop(team, "1"), "team_points")
  IN \/ ~isArray(team)
     \/ ~isArray(prop(team, "0"))
     \/ ~isRecord(points)
     \/ ~hasKey(points, "total")
     \/ ~isRecord(optProp(prop(team, "2"), "team_standings"))

Occurrences(list, value) ==
  Cardinality({i \in DOMAIN list : list[i] = value})

(* The call was made with options of the declared type and its standings   *)
(* data is a league standings response.                                    *)
NormalizedStandings ==
  /\ NormalizeDone
  /\ args.options # Null
  /\ isLeagueStandingsResponse(args.standingsData)

DeterministicScores ==
  /\ NormalizeDone
  /\ isRecord(args.options)
  /\ truthy(prop(args.options, "useDeterministicScores"))

ScoresOf(points, week, teamName) ==
  {i \in DOMAIN points :
     points[i].week = week /\ points[i].teamName = teamName}

Greatest(S) == CHOOSE i \in S : \A j \in S : j <= i

(* C23: the points normalizeLeague returns hold at most one score per      *)
(* (week, teamName), and when the merged scoreboard responses carry        *)
(* several scores for a week and team, the one kept is the last written.   *)
C23_OneScorePerWeekAndTeam ==
  NormalizeDone
  => LET points == returned.value.points
         written == scoreboardScores(args.scoreboardData)
     IN /\ \A i, j \in DOMAIN points :
             /\ points[i].week = points[j].week
             /\ points[i].teamName = points[j].teamName
             => i = j
        /\ \A k \in DOMAIN written :
             LET kept == ScoresOf(points, written[k].week, written[k].teamName)
                 last == Greatest(ScoresOf(written, written[k].week,
                                           written[k].teamName))
             IN kept # {} => \A i \in kept : points[i] = written[last]

StatsDone == svc = "normalizePlayerStats" /\ returned # Null

(* The week entries the responses hold for a player, in the order of the   *)
(* weeks, as they are before any projection is substituted.                *)
EntriesOf(playerKey) ==
  sortByWeek(
    LET entries == SelectSeq(allWeeks(args.weeklyRosterResponses),
                             LAMBDA e : e.playerKey = playerKey)
    IN [i \in DOMAIN entries |-> entries[i].stats])

PlayerKeys ==
  {allWeeks(args.weeklyRosterResponses)[i].playerKey :
     i \in DOMAIN allWeeks(args.weeklyRosterResponses)}

ReturnedKeys == {returned.value[i].playerKey : i \in DOMAIN returned.value}

(* C24: normalizePlayerStats returns a player if and only if at least one  *)
(* of the player's week entries has a nonzero actual score.                *)
C24_ReturnedIffNonzeroScore ==
  StatsDone
  => \A playerKey \in PlayerKeys :
       playerKey \in ReturnedKeys
       <=> \E i \in DOMAIN EntriesOf(playerKey) :
             EntriesOf(playerKey)[i].actualPoints.n # 0

(* The mean of the actual scores of the weeks before the i-th. *)
MeanBefore(weeklyData, i) ==
  over(sum([j \in 1..(i - 1) |-> weeklyData[j].actualPoints]), Whole(i - 1))

(* The week entry with the substitute projection: the week's own actual    *)
(* score in the first week, the mean of the earlier weeks' actual scores   *)
(* in a later one, and the differences against it.                         *)
Substituted(weeklyData, i) ==
  LET projection == IF i = 1 THEN weeklyData[1].actualPoints
                    ELSE MeanBefore(weeklyData, i)
      actual == weeklyData[i].actualPoints
  IN [week |-> weeklyData[i].week,
      projectedPoints |-> projection,
      actualPoints |-> actual,
      difference |-> minus(actual, projection),
      percentDifference |->
        IF projection.n > 0
        THEN times(over(minus(actual, projection), projection), 100)
        ELSE Whole(0)]

(* C25 as stated: every week entry without a projection gets the           *)
(* substitute projection, and an entry with a projection is not changed.   *)
C25_EveryAbsentProjectionSubstituted ==
  StatsDone
  => \A p \in DOMAIN returned.value :
       LET before == EntriesOf(returned.value[p].playerKey)
           after == returned.value[p].weeklyData
       IN /\ Len(after) = Len(before)
          /\ \A i \in DOMAIN before :
               after[i] = IF before[i].projectedPoints.n = 0
                          THEN Substituted(before, i)
                          ELSE before[i]

(* C25: in normalizePlayerStats a week entry without a projection (zero)   *)
(* and with a positive actual score gets a substitute projection, the      *)
(* week's own actual score in the player's first week and the mean of the  *)
(* actual scores of the player's earlier weeks in a later one, with        *)
(* difference and percentDifference recomputed against it; every other     *)
(* week entry, with a projection or without a positive actual score, is    *)
(* left as it is.                                                          *)
C25_PlayedWeekSubstituted ==
  StatsDone
  => \A p \in DOMAIN returned.value :
       LET before == EntriesOf(returned.value[p].playerKey)
           after == returned.value[p].weeklyData
       IN /\ Len(after) = Len(before)
          /\ \A i \in DOMAIN before :
               after[i] = IF /\ before[i].projectedPoints.n = 0
                             /\ before[i].actualPoints.n > 0
                          THEN Substituted(before, i)
                          ELSE before[i]

(* A player with 60 points and no projection in the first week, 105        *)
(* against a projection of 100 in the second and 60 without a projection   *)
(* in the third has the projections 60, 100 and 82.5.                      *)
C25_Witness ==
  /\ StatsDone
  /\ \E p \in DOMAIN returned.value :
       LET after == returned.value[p].weeklyData
       IN /\ Len(after) = 3
          /\ after[1].projectedPoints = Whole(60)
          /\ after[2].projectedPoints = Whole(100)
          /\ after[3].projectedPoints = Frac(165, 2)
          /\ after[3].actualPoints = Whole(60)

(* The weeks a player played: those with a nonzero actual score. *)
PlayedWeeks(weeklyData) ==
  {i \in DOMAIN weeklyData : weeklyData[i].actualPoints.n # 0}

WithinThreshold(weeklyData) ==
  {i \in PlayedWeeks(weeklyData) :
     atMost(magnitude(weeklyData[i].percentDifference), Whole(20))}

(* C26: in every summary normalizePlayerStats returns, accuracyRate is     *)
(* 100 times the number of played weeks whose percentDifference is at most *)
(* 20 in magnitude over the number of played weeks, a number from 0 to 100.*)
C26_AccuracyOfPlayedWeeks ==
  StatsDone
  => \A p \in DOMAIN returned.value :
       LET weeklyData == returned.value[p].weeklyData
           accuracyRate == returned.value[p].summary.accuracyRate
       IN /\ accuracyRate =
               Frac(100 * Cardinality(WithinThreshold(weeklyData)),
                    Cardinality(PlayedWeeks(weeklyData)))
          /\ atMost(Whole(0), accuracyRate)
          /\ atMost(accuracyRate, Whole(100))

(* Four played weeks with percentDifference 5, -15, 22 and -3. *)
AccuracyExample ==
  /\ StatsDone
  /\ Len(returned.value) = 1
  /\ [i \in DOMAIN returned.value[1].weeklyData |->
        returned.value[1].weeklyData[i].percentDifference]
       = <<Whole(5), Whole(-15), Whole(22), Whole(-3)>>

(* The call has fetched the stats of the week that was current and saved   *)
(* them; the call, for a week that is past, has been given its result from *)
(* the cache.                                                              *)
FetchedWhileCurrent(call) ==
  /\ call.pc = "done"
  /\ call.type = "stats"
  /\ call.upstream >= 1
  /\ call.result.kind = "data"
  /\ call.week = call.currentWeek

ServedAsPast(call) ==
  /\ call.pc = "done"
  /\ call.type = "stats"
  /\ call.upstream = 0
  /\ call.week < call.currentWeek

(* C27: over any sequence of getWeekStats calls, stat data that was        *)
(* fetched and cached while its week was the current week is not served    *)
(* from the cache to a call for which the week is past: no call is given   *)
(* from the cache, as the data of a past week, the response another call   *)
(* fetched while the week was current.                                     *)
C27_LiveDataNotServedAsPast ==
  \A c, d \in ConcurrentCallers :
    FetchedWhileCurrent(weekCall[c]) /\ ServedAsPast(weekCall[d])
    => weekCall[d].result # weekCall[c].result

(* The calls of getAccessToken for a user that wait for the identity       *)
(* provider's answer to a refresh request.                                 *)
RefreshesInFlight(userId) ==
  {c \in TokenCallers :
     tokCall[c].pc = "refresh" /\ tokCall[c].user = userId}

(* C28: for one user at most one refresh request is in flight at any time, *)
(* so that no refresh token is submitted to the identity provider by two   *)
(* calls.                                                                  *)
C28_OneRefreshInFlight ==
  \A u \in Users :
    /\ Cardinality(RefreshesInFlight(u)) <= 1
    /\ \A c, d \in RefreshesInFlight(u) :
         tokCall[c].sent = tokCall[d].sent => c = d

(* The token file holds a record of the user. *)
InTokenFile(file, userId) ==
  /\ file.st = "ok"
  /\ \E i \in DOMAIN file.entries : file.entries[i].key = userId

(* C29: when the refresh of a user whose record was removed meanwhile      *)
(* completes, the user stays without a record in memory, and the          *)
(* completion puts no record of the user into the token file.              *)
C29_RemovedStaysRemoved ==
  [][\A c \in TokenCallers :
       /\ tokCall[c].pc = "refresh"
       /\ tokens[tokCall[c].user] = NoToken
       /\ tokCall'[c].pc = "done"
       => /\ tokens'[tokCall[c].user] = NoToken
          /\ InTokenFile(tokenFile', tokCall[c].user)
               => InTokenFile(tokenFile, tokCall[c].user)]_vars

(* The calls that wait for the answer to a request for the key. *)
FetchesInFlight(type, season, week) ==
  {c \in ConcurrentCallers :
     /\ weekCall[c].pc = "fetch"
     /\ weekCall[c].type = type
     /\ weekCall[c].season = season
     /\ weekCall[c].week = week}

(* C30: for one cache key no two upstream requests are in flight at the    *)
(* same time, however many callers miss the cache together.                *)
C30_OneFetchPerKey ==
  \A k \in WeekKeys : Cardinality(FetchesInFlight(k[1], k[2], k[3])) <= 1

====
